---- MODULE Spec2Model ----
(***************************************************************************)
(* Dependency analysis engine of fe-analysis-skills:                       *)
(*   AdvancedDependencyAnalyzer, ImportAnalyzer, PeerDependencyAnalyzer    *)
(*   (analyze-dependencies-v2 and its analyzers), the legacy               *)
(*   DependencyAnalyzer (analyze-dependencies.js) and the cycle search of  *)
(*   EnhancedDependencyAnalyzer (enhanced-analyzer.js).                    *)
(* Strings are TLA+ strings; startsWith / endsWith / includes, path.resolve *)
(* and path.dirname are computed character by character.                   *)
(***************************************************************************)
EXTENDS Integers, Sequences, FiniteSets, TLC

(***************************************************************************)
(* JavaScript string primitives                                            *)
(***************************************************************************)
startsWith(s, p) == Len(s) >= Len(p) /\ SubSeq(s, 1, Len(p)) = p

endsWith(s, p) == Len(s) >= Len(p) /\ SubSeq(s, Len(s) - Len(p) + 1, Len(s)) = p

includes(s, p) == \E i \in 1..(Len(s) - Len(p) + 1) : SubSeq(s, i, i + Len(p) - 1) = p

\* s.slice(n): the string without its first n characters
sliceFrom(s, n) == IF n >= Len(s) THEN "" ELSE SubSeq(s, n + 1, Len(s))

\* s.slice(0, -1): the string without its last character
dropLast(s) == IF Len(s) <= 1 THEN "" ELSE SubSeq(s, 1, Len(s) - 1)

\* the elements of an array: Array.prototype.includes(x) is x \in Range(q)
Range(q) == {q[i] : i \in 1..Len(q)}

\* Array.prototype.indexOf on a sequence (1-based, 0 when absent)
indexOf(q, x) == IF x \in Range(q) THEN CHOOSE i \in 1..Len(q) : q[i] = x /\ \A j \in 1..(i - 1) : q[j] # x ELSE 0

(***************************************************************************)
(* node path module: path.dirname and path.resolve on POSIX paths           *)
(***************************************************************************)
lastSlash(p) == IF \E i \in 1..Len(p) : SubSeq(p, i, i) = "/" THEN CHOOSE i \in 1..Len(p) : SubSeq(p, i, i) = "/" /\ \A j \in (i + 1)..Len(p) : SubSeq(p, j, j) # "/" ELSE 0

pathDirname(p) == IF lastSlash(p) = 0 THEN "." ELSE IF lastSlash(p) = 1 THEN "/" ELSE SubSeq(p, 1, lastSlash(p) - 1)

RECURSIVE splitFrom(_, _, _, _, _)
\* String.prototype.split(sep), scanning from position i
splitFrom(s, sep, i, cur, acc) ==
    IF i > Len(s) THEN Append(acc, cur)
    ELSE IF i + Len(sep) - 1 <= Len(s) /\ SubSeq(s, i, i + Len(sep) - 1) = sep
         THEN splitFrom(s, sep, i + Len(sep), "", Append(acc, cur))
         ELSE splitFrom(s, sep, i + 1, cur \o SubSeq(s, i, i), acc)

split(s, sep) == splitFrom(s, sep, 1, "", <<>>)

RECURSIVE normalizeSegs(_, _, _)
\* drops "" and ".", lets ".." remove the segment before it
normalizeSegs(segs, i, out) == IF i > Len(segs) THEN out ELSE IF segs[i] = "" \/ segs[i] = "." THEN normalizeSegs(segs, i + 1, out) ELSE IF segs[i] = ".." THEN normalizeSegs(segs, i + 1, IF Len(out) = 0 THEN out ELSE SubSeq(out, 1, Len(out) - 1)) ELSE normalizeSegs(segs, i + 1, Append(out, segs[i]))

RECURSIVE joinSlash(_, _)
joinSlash(segs, i) == IF i > Len(segs) THEN "" ELSE "/" \o segs[i] \o joinSlash(segs, i + 1)

normalizeAbs(p) == IF Len(normalizeSegs(split(p, "/"), 1, <<>>)) = 0 THEN "/" ELSE joinSlash(normalizeSegs(split(p, "/"), 1, <<>>), 1)

\* path.resolve(from, to) with from absolute
pathResolve(from, to) == IF startsWith(to, "/") THEN normalizeAbs(to) ELSE normalizeAbs(from \o "/" \o to)

\* path.relative(from, to) for a path to below the directory from
pathRelative(from, to) == IF startsWith(to, from \o "/") THEN sliceFrom(to, Len(from) + 1) ELSE to


(***************************************************************************)
(* State.                                                                  *)
(*  project        the analysed project on disk: source files in listing   *)
(*                 order, the import references extracted from each file,  *)
(*                 the file tree, package.json, node_modules, the          *)
(*                 tsconfig / bundler configuration and the options        *)
(*  importAnalyzer ImportAnalyzer instance: tsConfig, aliases              *)
(*  advanced       AdvancedDependencyAnalyzer instance: importMap,         *)
(*                 dependencies, dependencyGraph, result                   *)
(*  peerAnalyzer   PeerDependencyAnalyzer instance: installedPackages and  *)
(*                 the analysis it returns                                 *)
(*  legacy         DependencyAnalyzer instance (analyze-dependencies.js)   *)
(*  enhanced       EnhancedDependencyAnalyzer instance (cycle search)      *)
(*  resolver       the calls of resolveImportPath made so far              *)
(*  pc             position of the running analyze() call                  *)
(***************************************************************************)
VARIABLES project, importAnalyzer, advanced, peerAnalyzer, legacy, enhanced, resolver, pc

vars == <<project, importAnalyzer, advanced, peerAnalyzer, legacy, enhanced, resolver, pc>>

\* the value of a field that the running specification does not use
Idle == [idle |-> TRUE]

\* JavaScript null / undefined of a string-valued expression (falsy, like "")
Null == ""

ProjectPath == "/p"

(***************************************************************************)
(* ImportAnalyzer                                                          *)
(***************************************************************************)
builtinModules == {"assert", "buffer", "child_process", "cluster", "console", "constants", "crypto", "dgram", "dns", "domain", "events", "fs", "http", "https", "module", "net", "os", "path", "punycode", "querystring", "readline", "repl", "stream", "string_decoder", "sys", "timers", "tls", "tty", "url", "util", "v8", "vm", "zlib"}

isRelativeImport(importName) == startsWith(importName, "./") \/ startsWith(importName, "../")

isBuiltinModule(importName) == importName \in builtinModules

\* fs.existsSync: true of a file of the tree and of every directory above one
existsSync(p) == p \in project.fsFiles \/ p = "/" \/ (\E f \in project.fsFiles : startsWith(f, p \o "/"))

RECURSIVE resolveAliasFrom(_, _, _)
resolveAliasFrom(aliases, importName, i) ==
    IF i > Len(aliases) THEN Null
    ELSE IF endsWith(aliases[i].alias, "*")
         THEN IF startsWith(importName, dropLast(aliases[i].alias))
              THEN pathResolve(ProjectPath, dropLast(aliases[i].target) \o sliceFrom(importName, Len(dropLast(aliases[i].alias))))
              ELSE resolveAliasFrom(aliases, importName, i + 1)
         ELSE IF importName = aliases[i].alias
              THEN pathResolve(ProjectPath, aliases[i].target)
              ELSE resolveAliasFrom(aliases, importName, i + 1)

resolveAlias(importName) == resolveAliasFrom(importAnalyzer.aliases, importName, 1)

RECURSIVE resolveTsFrom(_, _, _, _)
resolveTsFrom(paths, baseDir, importName, i) ==
    IF i > Len(paths) THEN Null
    ELSE IF endsWith(paths[i].pattern, "*")
         THEN IF startsWith(importName, dropLast(paths[i].pattern)) /\ endsWith(paths[i].targets[1], "*")
              THEN pathResolve(baseDir, dropLast(paths[i].targets[1]) \o sliceFrom(importName, Len(dropLast(paths[i].pattern))))
              ELSE resolveTsFrom(paths, baseDir, importName, i + 1)
         ELSE IF importName = paths[i].pattern
              THEN pathResolve(baseDir, paths[i].targets[1])
              ELSE resolveTsFrom(paths, baseDir, importName, i + 1)

resolveTypeScriptPath(importName) ==
    IF ~importAnalyzer.tsConfig.present \/ Len(importAnalyzer.tsConfig.paths) = 0 THEN Null
    ELSE resolveTsFrom(importAnalyzer.tsConfig.paths, pathResolve(ProjectPath, importAnalyzer.tsConfig.baseUrl), importName, 1)

\* the extension list of resolveImportPath; an entry that starts with "/" adds nothing
resolveExtensions == <<"", ".js", ".jsx", ".ts", ".tsx", ".json", "/index.js", "/index.ts">>

RECURSIVE tryExtensions(_, _)
tryExtensions(resolved, i) ==
    IF i > Len(resolveExtensions) THEN resolved
    ELSE IF existsSync(resolved \o (IF startsWith(resolveExtensions[i], "/") THEN "" ELSE resolveExtensions[i]))
         THEN resolved \o (IF startsWith(resolveExtensions[i], "/") THEN "" ELSE resolveExtensions[i])
         ELSE tryExtensions(resolved, i + 1)

resolveImportPath(importName, fromFile) ==
    IF ~isRelativeImport(importName) THEN importName
    ELSE LET fromDir == pathDirname(fromFile)
             resolved0 == pathResolve(fromDir, importName)
             resolved1 == IF importAnalyzer.tsConfig.present /\ Len(importAnalyzer.tsConfig.paths) > 0
                          THEN (IF resolveTypeScriptPath(importName) # Null THEN resolveTypeScriptPath(importName) ELSE resolved0)
                          ELSE resolved0
             resolved2 == IF resolveAlias(importName) # Null THEN resolveAlias(importName) ELSE resolved1
         IN tryExtensions(resolved2, 1)

\* analyzeFile: the import references extracted from one file ([] when it cannot be read)
analyzeFile(filePath) == project.fileImports[filePath]

RECURSIVE mapPush(_, _, _)
\* Map of module -> usages kept as a sequence of entries in insertion order
mapPush(m, key, usage) ==
    IF Len(m) = 0 THEN <<[module |-> key, usages |-> <<usage>>]>>
    ELSE IF m[1].module = key THEN <<[m[1] EXCEPT !.usages = Append(@, usage)]>> \o Tail(m)
         ELSE <<m[1]>> \o mapPush(Tail(m), key, usage)

RECURSIVE addFileImports(_, _, _, _)
addFileImports(m, filePath, imps, i) ==
    IF i > Len(imps) THEN m
    ELSE addFileImports(mapPush(m, imps[i].module, [file |-> filePath, line |-> imps[i].line, type |-> imps[i].type]), filePath, imps, i + 1)

RECURSIVE mapMerge(_, _, _, _)
\* the map after the usages of the map b, from its entry j and usage k on, are pushed
\* onto the map a: what the pushes that built b leave when they follow those of a
mapMerge(a, b, j, k) ==
    IF j > Len(b) THEN a
    ELSE IF k > Len(b[j].usages) THEN mapMerge(a, b, j + 1, 1)
    ELSE mapMerge(mapPush(a, b[j].module, b[j].usages[k]), b, j, k + 1)

RECURSIVE analyzeFilesFrom(_, _, _)
\* what the loop of analyzeFiles pushes for filePaths[lo..hi], in order: the pushes for
\* the first half of the range followed by the pushes for its second half
analyzeFilesFrom(filePaths, lo, hi) ==
    IF lo > hi THEN <<>>
    ELSE IF lo = hi THEN addFileImports(<<>>, filePaths[lo], analyzeFile(filePaths[lo]), 1)
    ELSE mapMerge(analyzeFilesFrom(filePaths, lo, (lo + hi) \div 2), analyzeFilesFrom(filePaths, (lo + hi) \div 2 + 1, hi), 1, 1)

analyzeFiles(filePaths) == analyzeFilesFrom(filePaths, 1, Len(filePaths))

mapHas(m, key) == \E i \in 1..Len(m) : m[i].module = key


(***************************************************************************)
(* The semver package as PeerDependencyAnalyzer uses it: satisfies,         *)
(* validRange and intersects on version strings M.m.p[-tag] and on ranges   *)
(* built from ^V, ~V, >=V, >V, <=V, <V, =V, V and *, V a release version    *)
(* M.m.p, joined by spaces (all must hold) and by || (one must hold). The   *)
(* model is used on these strings and on words that semver rejects as a     *)
(* whole (a dist-tag such as "next").                                       *)
(***************************************************************************)
isDigit(c) == c \in {"0", "1", "2", "3", "4", "5", "6", "7", "8", "9"}

isNumeric(s) == Len(s) > 0 /\ \A i \in 1..Len(s) : isDigit(SubSeq(s, i, i))

RECURSIVE toNat(_, _, _)
\* the number written by the digits of s from position i on, after acc
toNat(s, i, acc) == IF i > Len(s) THEN acc ELSE toNat(s, i + 1, acc * 10 + (CHOOSE d \in 0..9 : ToString(d) = SubSeq(s, i, i)))

RECURSIVE leadingDigits(_, _)
leadingDigits(s, i) == IF i <= Len(s) /\ isDigit(SubSeq(s, i, i)) THEN leadingDigits(s, i + 1) ELSE i - 1

NaN == -1

\* parseInt(s): the number written by the leading digits of s, NaN when there are none
parseInt(s) == IF leadingDigits(s, 1) = 0 THEN NaN ELSE toNat(SubSeq(s, 1, leadingDigits(s, 1)), 1, 0)

\* new SemVer(v): M.m.p with an optional -tag (a prerelease); t is <<M, m, p>>
parseVersion(v) ==
    LET dash == split(v, "-")
        nums == split(dash[1], ".")
    IN IF Len(nums) = 3 /\ (\A i \in 1..3 : isNumeric(nums[i])) /\ (Len(dash) = 1 \/ (Len(dash) >= 2 /\ dash[2] # ""))
       THEN [valid |-> TRUE, t |-> <<parseInt(nums[1]), parseInt(nums[2]), parseInt(nums[3])>>, pre |-> Len(dash) > 1]
       ELSE [valid |-> FALSE, t |-> <<0, 0, 0>>, pre |-> FALSE]

tupleLess(a, b) == a[1] < b[1] \/ (a[1] = b[1] /\ (a[2] < b[2] \/ (a[2] = b[2] /\ a[3] < b[3])))

comparatorOps == <<">=", "<=", "^", "~", ">", "<", "=">>

opOf(c) == IF \E i \in 1..Len(comparatorOps) : startsWith(c, comparatorOps[i])
           THEN comparatorOps[CHOOSE i \in 1..Len(comparatorOps) : startsWith(c, comparatorOps[i]) /\ \A j \in 1..(i - 1) : ~startsWith(c, comparatorOps[j])]
           ELSE ""

\* one comparator as the half-open interval lo <= v < hi of release versions
parseComparator(c) ==
    LET op == opOf(c)
        v == parseVersion(sliceFrom(c, Len(op)))
    IN IF c = "*" THEN [valid |-> TRUE, lo |-> <<0, 0, 0>>, bounded |-> FALSE, hi |-> <<0, 0, 0>>]
       ELSE IF ~v.valid \/ v.pre THEN [valid |-> FALSE, lo |-> <<0, 0, 0>>, bounded |-> FALSE, hi |-> <<0, 0, 0>>]
       ELSE IF op = "^" THEN [valid |-> TRUE, lo |-> v.t, bounded |-> TRUE,
                              hi |-> IF v.t[1] > 0 THEN <<v.t[1] + 1, 0, 0>> ELSE IF v.t[2] > 0 THEN <<0, v.t[2] + 1, 0>> ELSE <<0, 0, v.t[3] + 1>>]
       ELSE IF op = "~" THEN [valid |-> TRUE, lo |-> v.t, bounded |-> TRUE, hi |-> <<v.t[1], v.t[2] + 1, 0>>]
       ELSE IF op = ">=" THEN [valid |-> TRUE, lo |-> v.t, bounded |-> FALSE, hi |-> <<0, 0, 0>>]
       ELSE IF op = ">" THEN [valid |-> TRUE, lo |-> <<v.t[1], v.t[2], v.t[3] + 1>>, bounded |-> FALSE, hi |-> <<0, 0, 0>>]
       ELSE IF op = "<" THEN [valid |-> TRUE, lo |-> <<0, 0, 0>>, bounded |-> TRUE, hi |-> v.t]
       ELSE IF op = "<=" THEN [valid |-> TRUE, lo |-> <<0, 0, 0>>, bounded |-> TRUE, hi |-> <<v.t[1], v.t[2], v.t[3] + 1>>]
       ELSE [valid |-> TRUE, lo |-> v.t, bounded |-> TRUE, hi |-> <<v.t[1], v.t[2], v.t[3] + 1>>]

\* the intervals of one ||-alternative: one per space separated, non-empty word;
\* an alternative without words is "*"
intervalsOf(alt) ==
    LET words == SelectSeq(split(alt, " "), LAMBDA w : w # "")
    IN IF Len(words) = 0 THEN <<parseComparator("*")>> ELSE [k \in 1..Len(words) |-> parseComparator(words[k])]

\* new Range(r): the alternatives of r, each a sequence of intervals
parseRange(r) == [a \in 1..Len(split(r, "||")) |-> intervalsOf(split(r, "||")[a])]

\* semver.validRange(r) is truthy
validRange(r) == \A a \in 1..Len(parseRange(r)) : \A k \in 1..Len(parseRange(r)[a]) : parseRange(r)[a][k].valid

\* semver.satisfies(version, range): false when either does not parse; a
\* prerelease version satisfies no range whose comparators are releases
satisfies(version, range) ==
    LET v == parseVersion(version)
        rg == parseRange(range)
    IN /\ v.valid
       /\ validRange(range)
       /\ ~v.pre
       /\ \E a \in 1..Len(rg) : \A k \in 1..Len(rg[a]) : ~tupleLess(v.t, rg[a][k].lo) /\ (rg[a][k].bounded => tupleLess(v.t, rg[a][k].hi))


(***************************************************************************)
(* PeerDependencyAnalyzer                                                  *)
(* project.nodeModules lists the entries of node_modules in readdir order:  *)
(* [name, kind, version, peerDependencies, optional] with kind "pkg" (a     *)
(* package.json that parses), "dir" (a directory without package.json) or   *)
(* "bad" (a package.json that does not parse).                              *)
(***************************************************************************)
RECURSIVE flatten(_, _)
\* [].push(...part) over the parts from index i on
flatten(parts, i) == IF i > Len(parts) THEN <<>> ELSE parts[i] \o flatten(parts, i + 1)

RECURSIVE joinWith(_, _, _)
\* Array.prototype.join(sep)
joinWith(q, sep, i) == IF i > Len(q) THEN "" ELSE IF i = Len(q) THEN q[i] ELSE q[i] \o sep \o joinWith(q, sep, i + 1)

\* loadInstalledPackages / loadPackage: the entries whose package.json parses
loadInstalledPackages == SelectSeq(project.nodeModules, LAMBDA e : e.kind = "pkg" /\ ~startsWith(e.name, "."))

installedHas(pkgs, name) == \E i \in 1..Len(pkgs) : pkgs[i].name = name

installedGet(pkgs, name) == pkgs[CHOOSE i \in 1..Len(pkgs) : pkgs[i].name = name]

\* a === b on parseInt results (NaN equals nothing)
sameInt(a, b) == a # NaN /\ b # NaN /\ a = b

partOf(s, k) == IF Len(split(s, ".")) >= k THEN split(s, ".")[k] ELSE ""

\* the manual check in the catch branch of fallbackCompatibilityCheck
manualCheck(range, installedVersion) ==
    LET cleanRequired == IF \E c \in {"^", "~", "<", ">", "="} : startsWith(range, c) THEN sliceFrom(range, 1) ELSE range
    IN IF startsWith(range, "^") THEN sameInt(parseInt(partOf(cleanRequired, 1)), parseInt(partOf(installedVersion, 1)))
       ELSE IF startsWith(range, "~") THEN /\ sameInt(parseInt(partOf(cleanRequired, 1)), parseInt(partOf(installedVersion, 1)))
                                           /\ sameInt(parseInt(partOf(cleanRequired, 2)), parseInt(partOf(installedVersion, 2)))
       ELSE cleanRequired = installedVersion

\* checkVersionCompatibility answering with the manual check of the fallback
checkVersionCompatibility_manual(requiredRange, installedVersion) == manualCheck(requiredRange, installedVersion)

\* semver.satisfies returns false on a string it cannot parse and does not throw,
\* so the catch branch (fallbackCompatibilityCheck) is not entered
checkVersionCompatibility(requiredRange, installedVersion) == satisfies(installedVersion, requiredRange)

\* one requirement of analyzePackagePeerDeps
peerDepInfo(pkgs, pkg, k) ==
    LET peerName == pkg.peerDependencies[k].name
        requiredVersion == pkg.peerDependencies[k].range
        isOptional == peerName \in pkg.optional
        installed == installedHas(pkgs, peerName)
    IN [name |-> peerName, requiredVersion |-> requiredVersion, isOptional |-> isOptional, installed |-> installed,
        installedVersion |-> IF installed THEN installedGet(pkgs, peerName).version ELSE Null,
        isCompatible |-> installed /\ checkVersionCompatibility(requiredVersion, installedGet(pkgs, peerName).version)]

\* the conflict pushed for one requirement; it has no type and no requirements
\* property (undefined, here Null and <<>>)
peerConflictOf(pkg, info) ==
    IF info.installed /\ ~info.isCompatible /\ ~info.isOptional
    THEN <<[type |-> Null, requirements |-> <<>>, package |-> pkg.name, peerDependency |-> info.name, required |-> info.requiredVersion, installed |-> info.installedVersion, severity |-> "high"]>>
    ELSE <<>>

\* peerMissingOf without the test of the optional flag
peerMissingOf_ignoresOptional(pkg, info) ==
    IF ~info.installed
    THEN <<[package |-> pkg.name, peerDependency |-> info.name, requiredVersion |-> info.requiredVersion, severity |-> "high"]>>
    ELSE <<>>

\* the entry pushed to analysis.missing for one requirement
peerMissingOf(pkg, info) ==
    IF ~info.installed /\ ~info.isOptional
    THEN <<[package |-> pkg.name, peerDependency |-> info.name, requiredVersion |-> info.requiredVersion, severity |-> "high"]>>
    ELSE <<>>

\* the entry analyzePackagePeerDeps returns once every requirement is examined
packageAnalysis(pkg, infos) ==
    [name |-> pkg.name, version |-> pkg.version, peerDependencies |-> infos,
     missing |-> flatten([k \in 1..Len(infos) |-> peerMissingOf(pkg, infos[k])], 1),
     conflicts |-> flatten([k \in 1..Len(infos) |-> peerConflictOf(pkg, infos[k])], 1)]

analyzePackagePeerDeps(pkgs, pkg) ==
    packageAnalysis(pkg, [k \in 1..Len(pkg.peerDependencies) |-> peerDepInfo(pkgs, pkg, k)])

\* the names that some installed package requires as a peer, in first-seen order
RECURSIVE peerNamesFrom(_, _, _)
peerNamesFrom(reqs, i, acc) ==
    IF i > Len(reqs) THEN acc
    ELSE peerNamesFrom(reqs, i + 1, IF reqs[i].peer \in Range(acc) THEN acc ELSE Append(acc, reqs[i].peer))

\* the (package, peer, range) requirements of all installed packages, in Map order
allPeerRequirements(pkgs) ==
    flatten([i \in 1..Len(pkgs) |-> [k \in 1..Len(pkgs[i].peerDependencies) |->
        [peer |-> pkgs[i].peerDependencies[k].name, package |-> pkgs[i].name, version |-> pkgs[i].version, requiredVersion |-> pkgs[i].peerDependencies[k].range]]], 1)

requirementsFor(pkgs, peerName) == SelectSeq(allPeerRequirements(pkgs), LAMBDA r : r.peer = peerName)

\* truthy when semver.validRange accepts the requirements joined by a space;
\* validRange returns null and does not throw, so rangesOverlap is not entered
areRequirementsCompatible(requirements) ==
    validRange(joinWith([i \in 1..Len(requirements) |-> requirements[i].requiredVersion], " ", 1))

analyzeVersionConflict(packageName, requirements) ==
    IF ~areRequirementsCompatible(requirements)
    THEN <<[type |-> "cross-package-conflict", package |-> packageName, requirements |-> requirements, severity |-> "medium"]>>
    ELSE <<>>

\* the loop of analyzeCrossPackageConflicts over the peer names
conflictsAmong(pkgs, names) ==
    flatten([n \in 1..Len(names) |->
              IF Len(requirementsFor(pkgs, names[n])) > 1
              THEN analyzeVersionConflict(names[n], requirementsFor(pkgs, names[n]))
              ELSE <<>>], 1)

analyzeCrossPackageConflicts(pkgs) == conflictsAmong(pkgs, peerNamesFrom(allPeerRequirements(pkgs), 1, <<>>))

\* the result object of analyze(): packages, missing, conflicts and summary
peerResult(pkgs, withPeers, conflicts) ==
    [packages |-> withPeers,
     missing |-> flatten([i \in 1..Len(withPeers) |-> withPeers[i].missing], 1),
     conflicts |-> conflicts,
     summary |-> [totalPackages |-> Len(pkgs), packagesWithPeerDeps |-> Len(withPeers), conflicts |-> Len(conflicts)]]

\* the per-package entries followed by the cross-package conflicts
peerCollect(pkgs, withPeers) ==
    peerResult(pkgs, withPeers,
               flatten([i \in 1..Len(withPeers) |-> withPeers[i].conflicts], 1) \o analyzeCrossPackageConflicts(pkgs))

\* PeerDependencyAnalyzer.analyze() on the installed packages pkgs
peerAnalyze(pkgs) ==
    peerCollect(pkgs, SelectSeq([i \in 1..Len(pkgs) |-> analyzePackagePeerDeps(pkgs, pkgs[i])],
                                LAMBDA a : Len(a.peerDependencies) > 0))


(***************************************************************************)
(* AdvancedDependencyAnalyzer                                              *)
(***************************************************************************)
inScope(bucket) ==
    IF bucket = "dependencies" THEN project.options.scope \in {"all", "dependencies"}
    ELSE IF bucket = "devDependencies" THEN project.options.includeDev /\ project.options.scope \in {"all", "devDependencies"}
    ELSE project.options.scope \in {"all", "peerDependencies"}

depsHas(deps, name) == \E i \in 1..Len(deps) : deps[i].name = name

RECURSIVE addBucket(_, _, _, _)
\* dependencies.set(name, ...) for the entries of one bucket that are not yet in the Map
addBucket(deps, entries, bucket, i) ==
    IF i > Len(entries) THEN deps
    ELSE addBucket(IF depsHas(deps, entries[i].name) THEN deps ELSE Append(deps, [name |-> entries[i].name, version |-> entries[i].version, type |-> bucket]), entries, bucket, i + 1)

getAllDependencies(packageJson) ==
    LET d1 == IF inScope("dependencies") THEN addBucket(<<>>, packageJson.dependencies, "dependencies", 1) ELSE <<>>
        d2 == IF inScope("devDependencies") THEN addBucket(d1, packageJson.devDependencies, "devDependencies", 1) ELSE d1
    IN IF inScope("peerDependencies") THEN addBucket(d2, packageJson.peerDependencies, "peerDependencies", 1) ELSE d2

\* getSourceFiles: the supported files of the tree in listing order
getSourceFiles == project.sourceFiles

\* the deps list buildDependencyGraph gives one file
graphDeps(filePath, sourceFiles) ==
    LET imps == analyzeFile(filePath)
        rel == SelectSeq(imps, LAMBDA imp : isRelativeImport(imp.module) /\ resolveImportPath(imp.module, filePath) # Null /\ resolveImportPath(imp.module, filePath) \in Range(sourceFiles))
    IN [k \in 1..Len(rel) |-> resolveImportPath(rel[k].module, filePath)]

buildDependencyGraph(sourceFiles) == [i \in 1..Len(sourceFiles) |-> [file |-> sourceFiles[i], deps |-> graphDeps(sourceFiles[i], sourceFiles)]]

graphHas(graph, node) == \E i \in 1..Len(graph) : graph[i].file = node

\* this.dependencyGraph.get(node) || []
graphGet(graph, node) == IF graphHas(graph, node) THEN graph[CHOOSE i \in 1..Len(graph) : graph[i].file = node].deps ELSE <<>>

DfsStart == [visited |-> {}, recursionStack |-> {}, path |-> <<>>, cycles |-> <<>>, threw |-> FALSE]

RECURSIVE advDfs(_, _, _)
RECURSIVE advDfsDeps(_, _, _, _)
\* dfs(node, path) of AdvancedDependencyAnalyzer.detectCircularDependencies. The
\* parameter named path hides the path module, so path.relative(...) in the
\* cycle branch is a call of undefined on the array: it throws a TypeError
\* before cycles.push takes place.
advDfs(graph, node, st) ==
    IF st.threw THEN st
    ELSE IF node \in st.recursionStack THEN [st EXCEPT !.threw = TRUE]
    ELSE IF node \in st.visited THEN st
    ELSE LET entered == [st EXCEPT !.visited = @ \cup {node}, !.recursionStack = @ \cup {node}, !.path = Append(@, node)]
             after == advDfsDeps(graph, graphGet(graph, node), 1, entered)
         IN IF after.threw THEN after
            ELSE [after EXCEPT !.recursionStack = @ \ {node}, !.path = SubSeq(@, 1, Len(@) - 1)]

advDfsDeps(graph, deps, i, st) ==
    IF i > Len(deps) \/ st.threw THEN st ELSE advDfsDeps(graph, deps, i + 1, advDfs(graph, deps[i], st))

RECURSIVE advRoots(_, _, _)
\* for (const node of this.dependencyGraph.keys()) if (!visited.has(node)) dfs(node, [])
advRoots(graph, i, st) ==
    IF i > Len(graph) \/ st.threw THEN st
    ELSE advRoots(graph, i + 1, IF graph[i].file \in st.visited THEN st ELSE advDfs(graph, graph[i].file, [st EXCEPT !.path = <<>>]))

cycleSeverity(cycle) == IF Len(cycle) <= 3 THEN "high" ELSE IF Len(cycle) <= 5 THEN "medium" ELSE "low"

\* detectCircularDependencies: the search state it ends in
detectCircularDependencies(graph) == advRoots(graph, 1, DfsStart)

\* isDependencyUsed without its direct-import test
isDependencyUsed_indirectOnly(importMap, depName) ==
    \/ (startsWith(depName, "@babel/") /\ mapHas(importMap, "babel"))
    \/ (startsWith(depName, "eslint-plugin-") /\ mapHas(importMap, "eslint"))
    \/ (startsWith(depName, "@types/") /\ mapHas(importMap, "typescript"))
    \/ (endsWith(depName, "-loader") /\ mapHas(importMap, "webpack"))

isDependencyUsed(importMap, depName) ==
    \/ mapHas(importMap, depName)
    \/ (startsWith(depName, "@babel/") /\ mapHas(importMap, "babel"))
    \/ (startsWith(depName, "eslint-plugin-") /\ mapHas(importMap, "eslint"))
    \/ (startsWith(depName, "@types/") /\ mapHas(importMap, "typescript"))
    \/ (endsWith(depName, "-loader") /\ mapHas(importMap, "webpack"))
    \/ (startsWith(depName, "vite-plugin-") /\ mapHas(importMap, "vite"))
    \/ (startsWith(depName, "prettier-plugin-") /\ mapHas(importMap, "prettier"))

\* both are stubs in the source and return false
isUsedInConfigFiles(depName) == FALSE

isUsedInScripts(depName) == FALSE

calculateConfidence(depName) ==
    IF startsWith(depName, "@types/") THEN "high"
    ELSE IF includes(depName, "test") \/ includes(depName, "spec") THEN "high"
    ELSE IF startsWith(depName, "eslint-") \/ startsWith(depName, "prettier-") THEN "high"
    ELSE "medium"

\* the entries findUnusedDependencies pushes to result.data.unused
findUnusedDependencies(importMap, dependencies) ==
    LET kept == SelectSeq(dependencies, LAMBDA d : ~isDependencyUsed(importMap, d.name) /\ ~isUsedInConfigFiles(d.name) /\ ~isUsedInScripts(d.name))
    IN [k \in 1..Len(kept) |-> [name |-> kept[k].name, version |-> kept[k].version, type |-> kept[k].type, confidence |-> calculateConfidence(kept[k].name)]]

\* PackageUtils.fileExists(path.join(nodeModulesPath, importName))
nodeModulesHas(importName) == \E i \in 1..Len(project.nodeModules) : project.nodeModules[i].name = importName

\* PackageUtils.fileExists(node_modules/<importName>/package.json)
packageJsonExists(importName) == \E i \in 1..Len(project.nodeModules) : project.nodeModules[i].name = importName /\ project.nodeModules[i].kind \in {"pkg", "bad"}

\* PackageUtils.getPackageInfo returns an object (the package.json parses)
getPackageInfoOk(importName) == \E i \in 1..Len(project.nodeModules) : project.nodeModules[i].name = importName /\ project.nodeModules[i].kind = "pkg"

\* isMissingImport with the node_modules test inverted
isMissingImport_inverted(dependencies, importName) ==
    /\ ~(isRelativeImport(importName) \/ isBuiltinModule(importName) \/ startsWith(importName, "@types/"))
    /\ ~depsHas(dependencies, importName)
    /\ nodeModulesHas(importName)

isMissingImport(dependencies, importName) ==
    /\ ~(isRelativeImport(importName) \/ isBuiltinModule(importName) \/ startsWith(importName, "@types/"))
    /\ ~depsHas(dependencies, importName)
    /\ ~nodeModulesHas(importName)

\* the entries findMissingDependencies pushes to result.data.missing
findMissingDependencies(importMap, dependencies) ==
    LET kept == SelectSeq(importMap, LAMBDA e : isMissingImport(dependencies, e.module))
    IN [k \in 1..Len(kept) |-> [name |-> kept[k].module,
                               usedIn |-> [u \in 1..Len(kept[k].usages) |-> [file |-> pathRelative(ProjectPath, kept[k].usages[u].file), line |-> kept[k].usages[u].line, type |-> kept[k].usages[u].type]],
                               confidence |-> IF Len(kept[k].usages) > 2 THEN "high" ELSE "medium"]]

isPhantomImport(dependencies, importName) ==
    /\ ~(isRelativeImport(importName) \/ isBuiltinModule(importName) \/ depsHas(dependencies, importName))
    /\ packageJsonExists(importName)
    /\ getPackageInfoOk(importName)

assessPhantomRisk(usageCount) == IF usageCount > 10 THEN "high" ELSE IF usageCount > 5 THEN "medium" ELSE "low"

\* the entries findPhantomDependencies pushes to result.data.phantom
findPhantomDependencies(importMap, dependencies) ==
    LET kept == SelectSeq(importMap, LAMBDA e : isPhantomImport(dependencies, e.module))
    IN [k \in 1..Len(kept) |-> [name |-> kept[k].module,
                               usedIn |-> [u \in 1..Len(kept[k].usages) |-> pathRelative(ProjectPath, kept[k].usages[u].file)],
                               risk |-> assessPhantomRisk(Len(kept[k].usages))]]

\* the entries analyzePeerDependencies maps peerAnalysis.conflicts to
peerConflictEntries(analysis) ==
    [k \in 1..Len(analysis.conflicts) |-> [type |-> analysis.conflicts[k].type, package |-> analysis.conflicts[k].package, severity |-> analysis.conflicts[k].severity, requirements |-> analysis.conflicts[k].requirements]]

\* the entries analyzePeerDependencies pushes to result.data.missing
peerMissingEntries(analysis) ==
    [k \in 1..Len(analysis.missing) |-> [name |-> analysis.missing[k].peerDependency, type |-> "peer-dependency", requiredBy |-> analysis.missing[k].package, version |-> analysis.missing[k].requiredVersion]]

min(a, b) == IF a < b THEN a ELSE b

max(a, b) == IF a > b THEN a ELSE b

\* the deductions of calculateHealthScore without Math.min and Math.max
healthScore_uncapped(summary) ==
    100 - summary.unused * 2 - summary.missing * 3 - summary.peerConflicts * 5 - summary.vulnerable * 10 - summary.circular * 5

healthScore(summary) ==
    max(0, 100 - min(30, summary.unused * 2) - min(25, summary.missing * 3) - min(20, summary.peerConflicts * 5) - min(15, summary.vulnerable * 10) - min(10, summary.circular * 5))


(***************************************************************************)
(* EnhancedDependencyAnalyzer: the cycle search of enhanced-analyzer.js     *)
(***************************************************************************)
RECURSIVE enhDfs(_, _, _)
RECURSIVE enhDfsDeps(_, _, _, _)
\* dfs(node, path) of EnhancedDependencyAnalyzer.detectCircularDependencies: as in
\* AdvancedDependencyAnalyzer the parameter path hides the path module and the
\* cycle branch throws; here each callee receives a copy [...path]
enhDfs(graph, node, st) ==
    IF st.threw THEN st
    ELSE IF node \in st.recursionStack THEN [st EXCEPT !.threw = TRUE]
    ELSE IF node \in st.visited THEN st
    ELSE LET after == enhDfsDeps(graph, graphGet(graph, node), 1, [st EXCEPT !.visited = @ \cup {node}, !.recursionStack = @ \cup {node}, !.path = Append(@, node)])
         IN IF after.threw THEN after
            ELSE [after EXCEPT !.recursionStack = @ \ {node}, !.path = SubSeq(@, 1, Len(@) - 1)]

\* the callee works on its own copy, so the caller's path is as before the call
enhDfsDeps(graph, deps, i, st) ==
    IF i > Len(deps) \/ st.threw THEN st
    ELSE enhDfsDeps(graph, deps, i + 1, [enhDfs(graph, deps[i], st) EXCEPT !.path = st.path])

RECURSIVE enhRoots(_, _, _, _)
\* the loop over the graph's keys lo..hi, in order (first half, then second half);
\* nothing runs after the search threw
enhRoots(graph, lo, hi, st) ==
    IF lo > hi \/ st.threw THEN st
    ELSE IF lo = hi THEN (IF graph[lo].file \in st.visited THEN st ELSE enhDfs(graph, graph[lo].file, [st EXCEPT !.path = <<>>]))
    ELSE enhRoots(graph, (lo + hi) \div 2 + 1, hi, enhRoots(graph, lo, (lo + hi) \div 2, st))

enhancedDetectCircularDependencies(graph) == enhRoots(graph, 1, Len(graph), DfsStart)


(***************************************************************************)
(* Legacy DependencyAnalyzer (analyze-dependencies.js): dependency graph    *)
(* and cycle search                                                        *)
(***************************************************************************)
legacyExtensions == <<".js", ".jsx", ".ts", ".tsx", ".json", "/index.js", "/index.ts">>

\* resolved + (ext.startsWith('/') ? ext : ext.replace(/^\./, ''))
fileWithExt(resolved, ext) == resolved \o (IF startsWith(ext, "/") THEN ext ELSE IF startsWith(ext, ".") THEN sliceFrom(ext, 1) ELSE ext)

RECURSIVE legacyTryExtensions(_, _, _)
legacyTryExtensions(graph, resolved, i) ==
    IF i > Len(legacyExtensions) THEN Null
    ELSE IF graphHas(graph, fileWithExt(resolved, legacyExtensions[i])) THEN fileWithExt(resolved, legacyExtensions[i])
    ELSE legacyTryExtensions(graph, resolved, i + 1)

\* DependencyAnalyzer.resolveImportPath(fromFile, importPath)
legacyResolveImportPath(graph, fromFile, importPath) ==
    IF ~startsWith(importPath, "./") /\ ~startsWith(importPath, "../") THEN Null
    ELSE legacyTryExtensions(graph, pathResolve(pathDirname(fromFile), importPath), 1)

assessCycleSeverity(cycleLength) == IF cycleLength <= 2 THEN "high" ELSE IF cycleLength <= 4 THEN "medium" ELSE "low"

\* the entry pushed to circularPaths for cycle = [...currentPath.slice(cycleStart), depFile]
cycleEntry(cycle) == [path |-> [k \in 1..Len(cycle) |-> pathRelative(ProjectPath, cycle[k])], severity |-> assessCycleSeverity(Len(cycle))]

\* analyzeSourceFiles: dependencyGraph.set(filePath, imports) for every source file
legacyAnalyzeSourceFiles(sourceFiles) == [i \in 1..Len(sourceFiles) |-> [file |-> sourceFiles[i], deps |-> analyzeFile(sourceFiles[i])]]

RECURSIVE detectCircular(_, _, _)
RECURSIVE detectCircularDeps(_, _, _, _, _)
\* detectCircularDep with the visited set tested in place of the recursion stack
detectCircularDep_visited(graph, depFile, st) ==
    IF depFile = Null THEN st
    ELSE IF depFile \in st.visited THEN [st EXCEPT !.circularPaths = Append(@, cycleEntry(<<depFile>>))]
    ELSE detectCircular(graph, depFile, st)

\* the body of detectCircular's loop for one dependency resolved to depFile
detectCircularDep(graph, depFile, st) ==
    IF depFile = Null THEN st
    ELSE IF depFile \in st.recursionStack THEN [st EXCEPT !.circularPaths = Append(@, cycleEntry(SubSeq(st.currentPath, indexOf(st.currentPath, depFile), Len(st.currentPath)) \o <<depFile>>))]
    ELSE IF depFile \notin st.visited THEN detectCircular(graph, depFile, st)
    ELSE st

detectCircularDeps(graph, file, deps, i, st) ==
    IF i > Len(deps) THEN st
    ELSE detectCircularDeps(graph, file, deps, i + 1, detectCircularDep(graph, legacyResolveImportPath(graph, file, deps[i].module), st))

\* detectCircular(file, visited, recursionStack, currentPath)
detectCircular(graph, file, st) ==
    LET after == detectCircularDeps(graph, file, graphGet(graph, file), 1, [st EXCEPT !.visited = @ \cup {file}, !.recursionStack = @ \cup {file}, !.currentPath = Append(@, file)])
    IN [after EXCEPT !.recursionStack = @ \ {file}, !.currentPath = SubSeq(@, 1, Len(@) - 1)]

RECURSIVE legacyRoots(_, _, _)
\* for (const [file] of this.dependencyGraph) if (!visited.has(file)) detectCircular(file, ...)
legacyRoots(graph, i, st) ==
    IF i > Len(graph) THEN st
    ELSE legacyRoots(graph, i + 1, IF graph[i].file \in st.visited THEN st ELSE detectCircular(graph, graph[i].file, [st EXCEPT !.currentPath = <<>>]))

\* DependencyAnalyzer.detectCircularDependencies: the circularPaths it ends with
legacyDetectCircularDependencies(graph) == legacyRoots(graph, 1, [visited |-> {}, recursionStack |-> {}, currentPath |-> <<>>, circularPaths |-> <<>>]).circularPaths


(***************************************************************************)
(* Projects analysed by the specification Spec                             *)
(***************************************************************************)
\* most import references a project holds over all of its files
MaxImports == 2

SeqsUpTo(S, n) == UNION {[1..k -> S] : k \in 0..n}

\* the references extracted from a file whose specifiers are q, one per line
importsOf(q) == [i \in 1..Len(q) |-> [module |-> q[i], line |-> i, type |-> "import"]]

RECURSIVE totalLen(_, _, _)
totalLen(f, files, i) == IF i > Len(files) THEN 0 ELSE Len(f[files[i]]) + totalLen(f, files, i + 1)

\* every way to give the files import lists over the specifiers S, n references in all
ImportAssignments(files, S, n) ==
    {[x \in Range(files) |-> importsOf(f[x])] : f \in {g \in [Range(files) -> SeqsUpTo(S, n)] : totalLen(g, files, 1) <= n}}

SourceFiles == <<"/p/a.js", "/p/b.js">>

ImportNames == {"lodash", "axios", "@types/estree", "events", "./b", "./a"}

DefaultOptions == [scope |-> "all", includeDev |-> TRUE, checkPeerDependencies |-> TRUE, parallel |-> FALSE]

manifestOf(deps, devDeps) == [present |-> TRUE, dependencies |-> deps, devDependencies |-> devDeps, peerDependencies |-> <<>>]

Manifests ==
    { [present |-> FALSE, dependencies |-> <<>>, devDependencies |-> <<>>, peerDependencies |-> <<>>],
      manifestOf(<<>>, <<>>),
      manifestOf(<<[name |-> "lodash", version |-> "^4.17.21"]>>, <<>>),
      manifestOf(<<[name |-> "axios", version |-> "^1.6.0"]>>, <<[name |-> "@types/estree", version |-> "^1.0.0"]>>) }

nmEntry(name, kind, version, peers) == [name |-> name, kind |-> kind, version |-> version, peerDependencies |-> peers, optional |-> {}]

NodeModulesListings ==
    { <<>>,
      <<nmEntry("axios", "pkg", "1.6.0", <<>>)>>,
      <<nmEntry("axios", "dir", "", <<>>)>>,
      <<nmEntry("axios", "bad", "", <<>>)>>,
      <<nmEntry("events", "pkg", "3.3.0", <<>>)>>,
      <<nmEntry("@types/estree", "pkg", "1.0.5", <<>>), nmEntry("axios", "pkg", "1.6.0", <<[name |-> "lodash", range |-> "^4.0.0"]>>)>> }

NoTsConfig == [present |-> FALSE, baseUrl |-> ".", paths |-> <<>>]

ClassifyProjects ==
    {[sourceFiles |-> SourceFiles, fileImports |-> fi, fsFiles |-> Range(SourceFiles), packageJson |-> pj,
      nodeModules |-> nm, options |-> DefaultOptions, tsconfig |-> NoTsConfig, aliasConfig |-> <<>>] :
        fi \in ImportAssignments(SourceFiles, ImportNames, MaxImports), pj \in Manifests, nm \in NodeModulesListings}

\* the state of the objects after construction
NewImportAnalyzer == [tsConfig |-> NoTsConfig, aliases |-> <<>>]

NewAdvanced ==
    [importMap |-> <<>>, dependencies |-> <<>>, dependencyGraph |-> <<>>,
     result |->
        [success |-> TRUE, error |-> Null,
         summary |-> [total |-> 0, unused |-> 0, missing |-> 0, phantom |-> 0, outdated |-> 0, vulnerable |-> 0, peerConflicts |-> 0, circular |-> 0],
         unused |-> <<>>, missing |-> <<>>, phantom |-> <<>>, peerConflicts |-> <<>>, circular |-> <<>>,
         health |-> [score |-> 0]]]

NewPeerAnalyzer == [installedPackages |-> <<>>, analysis |-> [packages |-> <<>>, missing |-> <<>>, conflicts |-> <<>>, summary |-> [totalPackages |-> 0, packagesWithPeerDeps |-> 0, conflicts |-> 0]]]

Init ==
    /\ project \in ClassifyProjects
    /\ importAnalyzer = NewImportAnalyzer
    /\ advanced = NewAdvanced
    /\ peerAnalyzer = NewPeerAnalyzer
    /\ legacy = Idle
    /\ enhanced = Idle
    /\ resolver = Idle
    /\ pc = "initialize"

(***************************************************************************)
(* AdvancedDependencyAnalyzer.analyze(), one action per step of its try     *)
(* block; an exception ends the run in the catch clause.                    *)
(***************************************************************************)
\* catch (error) { success = false; error = error.message }
failed(result, message) == [result EXCEPT !.success = FALSE, !.error = message]

\* ImportAnalyzer.initialize(): loadTsConfig and loadAliases
Initialize ==
    /\ pc = "initialize"
    /\ importAnalyzer' = [tsConfig |-> project.tsconfig, aliases |-> project.aliasConfig]
    /\ pc' = "loadPackageJson"
    /\ UNCHANGED <<project, advanced, peerAnalyzer, legacy, enhanced, resolver>>

\* loadPackageJson and getAllDependencies
LoadPackageJson ==
    /\ pc = "loadPackageJson"
    /\ IF ~project.packageJson.present
       THEN /\ advanced' = [advanced EXCEPT !.result = failed(@, "package.json not found")]
            /\ pc' = "returned"
       ELSE /\ advanced' = [advanced EXCEPT !.dependencies = getAllDependencies(project.packageJson),
                                            !.result.summary.total = Len(getAllDependencies(project.packageJson))]
            /\ pc' = "analyzeImports"
    /\ UNCHANGED <<project, importAnalyzer, peerAnalyzer, legacy, enhanced, resolver>>

\* analyzeImports: getSourceFiles, analyzeFiles, buildDependencyGraph, detectCircularDependencies
AnalyzeImports ==
    /\ pc = "analyzeImports"
    /\ LET sourceFiles == getSourceFiles
           graph == buildDependencyGraph(sourceFiles)
           search == detectCircularDependencies(graph)
           scanned == [advanced EXCEPT !.importMap = analyzeFiles(sourceFiles), !.dependencyGraph = graph]
       IN IF search.threw
          THEN /\ advanced' = [scanned EXCEPT !.result = failed(@, "path.relative is not a function")]
               /\ pc' = "returned"
          ELSE /\ advanced' = [scanned EXCEPT !.result.circular = [k \in 1..Len(search.cycles) |-> [path |-> search.cycles[k], severity |-> cycleSeverity(search.cycles[k])]],
                                              !.result.summary.circular = Len(search.cycles)]
               /\ pc' = IF project.options.checkPeerDependencies THEN "analyzePeerDependencies" ELSE "findUnusedDependencies"
    /\ UNCHANGED <<project, importAnalyzer, peerAnalyzer, legacy, enhanced, resolver>>

\* the assignments of analyzePeerDependencies once the peer analysis is known
mergePeerAnalysis(pkgs, analysis) ==
    /\ peerAnalyzer' = [installedPackages |-> pkgs, analysis |-> analysis]
    /\ advanced' = [advanced EXCEPT !.result.peerConflicts = peerConflictEntries(analysis),
                                    !.result.summary.peerConflicts = Len(analysis.conflicts),
                                    !.result.missing = @ \o peerMissingEntries(analysis)]

\* analyzePeerDependencies: PeerDependencyAnalyzer.analyze() and the copy into the result
AnalyzePeerDependencies ==
    /\ pc = "analyzePeerDependencies"
    /\ mergePeerAnalysis(loadInstalledPackages, peerAnalyze(loadInstalledPackages))
    /\ pc' = "findUnusedDependencies"
    /\ UNCHANGED <<project, importAnalyzer, legacy, enhanced, resolver>>

FindUnusedDependencies ==
    /\ pc = "findUnusedDependencies"
    /\ LET found == findUnusedDependencies(advanced.importMap, advanced.dependencies)
       IN advanced' = [advanced EXCEPT !.result.unused = @ \o found, !.result.summary.unused = @ + Len(found)]
    /\ pc' = "findMissingDependencies"
    /\ UNCHANGED <<project, importAnalyzer, peerAnalyzer, legacy, enhanced, resolver>>

FindMissingDependencies ==
    /\ pc = "findMissingDependencies"
    /\ LET found == findMissingDependencies(advanced.importMap, advanced.dependencies)
       IN advanced' = [advanced EXCEPT !.result.missing = @ \o found, !.result.summary.missing = @ + Len(found)]
    /\ pc' = "findPhantomDependencies"
    /\ UNCHANGED <<project, importAnalyzer, peerAnalyzer, legacy, enhanced, resolver>>

FindPhantomDependencies ==
    /\ pc = "findPhantomDependencies"
    /\ LET found == findPhantomDependencies(advanced.importMap, advanced.dependencies)
       IN advanced' = [advanced EXCEPT !.result.phantom = @ \o found, !.result.summary.phantom = @ + Len(found)]
    /\ pc' = "calculateHealthScore"
    /\ UNCHANGED <<project, importAnalyzer, peerAnalyzer, legacy, enhanced, resolver>>

\* checkOutdated and checkSecurity are off by default; calculateHealthScore ends the try block
CalculateHealthScore ==
    /\ pc = "calculateHealthScore"
    /\ advanced' = [advanced EXCEPT !.result.health.score = healthScore(advanced.result.summary)]
    /\ pc' = "returned"
    /\ UNCHANGED <<project, importAnalyzer, peerAnalyzer, legacy, enhanced, resolver>>

Next ==
    \/ Initialize
    \/ LoadPackageJson
    \/ AnalyzeImports
    \/ AnalyzePeerDependencies
    \/ FindUnusedDependencies
    \/ FindMissingDependencies
    \/ FindPhantomDependencies
    \/ CalculateHealthScore

Spec == Init /\ [][Next]_vars


(***************************************************************************)
(* Classification properties, checked under Spec                           *)
(***************************************************************************)
\* some scanned file holds an import reference whose specifier is name
importedSomewhere(name) == \E i \in 1..Len(project.sourceFiles) : \E k \in 1..Len(project.fileImports[project.sourceFiles[i]]) : project.fileImports[project.sourceFiles[i]][k].module = name

importedNames == {n \in ImportNames : importedSomewhere(n)}

\* the names the manifest declares within the analysed scope
declaredNames == IF project.packageJson.present THEN {getAllDependencies(project.packageJson)[i].name : i \in 1..Len(getAllDependencies(project.packageJson))} ELSE {}

unusedNames == {advanced.result.unused[i].name : i \in 1..Len(advanced.result.unused)}

\* the names listed missing because of an import: the entries with usedIn (the
\* entries of missing peers have requiredBy)
missingNames == {advanced.result.missing[i].name : i \in {j \in 1..Len(advanced.result.missing) : "usedIn" \in DOMAIN advanced.result.missing[j]}}

phantomNames == {advanced.result.phantom[i].name : i \in 1..Len(advanced.result.phantom)}

\* findUnusedDependencies has run
unusedDone == pc \in {"findMissingDependencies", "findPhantomDependencies", "calculateHealthScore"} \/ (pc = "returned" /\ advanced.result.success)

\* findMissingDependencies and findPhantomDependencies have both run
classifyDone == pc = "calculateHealthScore" \/ (pc = "returned" /\ advanced.result.success)

\* a bare specifier that names an external package: not relative, not absolute, not a Node built-in
bareExternal(name) == ~isRelativeImport(name) /\ ~startsWith(name, "/") /\ ~isBuiltinModule(name)

\* C1: a declared dependency that some scanned file imports is never in the unused list
C1_ImportedNeverUnused == \A d \in declaredNames : importedSomewhere(d) => d \notin unusedNames

\* C1 witness: findUnusedDependencies has listed something while a declared name is imported
C1_Witness == unusedDone /\ Len(advanced.result.unused) > 0 /\ \E d \in declaredNames : importedSomewhere(d)

C3_InstalledIsPhantom == classifyDone => \A n \in importedNames : (bareExternal(n) /\ n \notin declaredNames /\ nodeModulesHas(n)) => (n \in phantomNames /\ n \notin missingNames)

\* C9: a declared lodash that no file imports is listed unused with confidence high
C9_LodashUnusedHigh == (unusedDone /\ "lodash" \in declaredNames /\ ~importedSomewhere("lodash")) => \E i \in 1..Len(advanced.result.unused) : advanced.result.unused[i].name = "lodash" /\ advanced.result.unused[i].confidence = "high"

\* every issue list of the result is empty and every summary count is 0
nothingReported ==
    /\ advanced.result.unused = <<>> /\ advanced.result.missing = <<>> /\ advanced.result.phantom = <<>>
    /\ advanced.result.peerConflicts = <<>> /\ advanced.result.circular = <<>>
    /\ \A k \in DOMAIN advanced.result.summary : advanced.result.summary[k] = 0

\* C18: when package.json is absent or does not parse, analyze() returns success =
\* false with an error that names the path of the manifest, and nothing was scanned
\* or classified
C18_ManifestFailure ==
    (pc = "returned" /\ ~project.packageJson.present) =>
        /\ ~advanced.result.success
        /\ includes(advanced.result.error, ProjectPath \o "/package.json")
        /\ advanced.importMap = <<>> /\ nothingReported

\* C18 witness: analyze() has returned for a project without a readable manifest;
\* the result is failed and empty and its error is 'package.json not found'
C18_Witness ==
    pc = "returned" /\ ~project.packageJson.present /\ ~advanced.result.success /\ nothingReported /\ advanced.result.error = "package.json not found"

(***************************************************************************)
(* Specification SpecPeer: AdvancedDependencyAnalyzer.analyze() on projects *)
(* whose installed packages carry peer requirements on react                *)
(***************************************************************************)
\* the installed versions of react
PeerVersions == {"15.7.0", "16.7.0", "16.8.0", "16.9.0", "16.10.0", "17.0.0", "16.9.0-rc.1"}

\* the ranges a package requires of its peer react; semver parses neither the
\* dist-tag "next" nor "^16.8.0.1"
PeerRanges == {"^16.8.0", "^16.0.0", "^17.0.0", "^16.8.0 || ^17.0.0", "next", "^16.8.0.1"}

requiring(name, range, optional) == [name |-> name, kind |-> "pkg", version |-> "1.0.0", peerDependencies |-> <<[name |-> "react", range |-> range]>>, optional |-> optional]

\* node_modules holds pkg-a, possibly pkg-b, possibly react, in readdir order
PeerProjects ==
    {[sourceFiles |-> SourceFiles, fileImports |-> [x \in Range(SourceFiles) |-> importsOf(<<"pkg-a">>)], fsFiles |-> Range(SourceFiles),
      packageJson |-> manifestOf(<<[name |-> "pkg-a", version |-> "^1.0.0"]>>, <<>>),
      nodeModules |-> a \o b \o r, options |-> DefaultOptions, tsconfig |-> NoTsConfig, aliasConfig |-> <<>>] :
        a \in {<<requiring("pkg-a", ra, opt)>> : ra \in PeerRanges, opt \in {{}, {"react"}}},
        b \in {<<>>} \cup {<<requiring("pkg-b", rb, {})>> : rb \in PeerRanges},
        r \in {<<>>} \cup {<<nmEntry("react", "pkg", v, <<>>)>> : v \in PeerVersions}}

InitPeer ==
    /\ project \in PeerProjects
    /\ importAnalyzer = NewImportAnalyzer
    /\ advanced = NewAdvanced
    /\ peerAnalyzer = NewPeerAnalyzer
    /\ legacy = Idle
    /\ enhanced = Idle
    /\ resolver = Idle
    /\ pc = "initialize"

SpecPeer == InitPeer /\ [][Next]_vars


(***************************************************************************)
(* Peer dependency properties, checked under SpecPeer                      *)
(***************************************************************************)
\* analyzePeerDependencies has run
peerAnalysed == pc \in {"findUnusedDependencies", "findMissingDependencies", "findPhantomDependencies", "calculateHealthScore"} \/ (pc = "returned" /\ advanced.result.success)

\* the requirements examined by analyzePackagePeerDeps, each with its package entry
examined == UNION {{[entry |-> peerAnalyzer.analysis.packages[i], info |-> peerAnalyzer.analysis.packages[i].peerDependencies[k]] : k \in 1..Len(peerAnalyzer.analysis.packages[i].peerDependencies)} : i \in 1..Len(peerAnalyzer.analysis.packages)}

\* r is ^M.m.p with M > 0
isCaretRange(r) == startsWith(r, "^") /\ Len(split(sliceFrom(r, 1), ".")) = 3 /\ (\A k \in 1..3 : isNumeric(split(sliceFrom(r, 1), ".")[k])) /\ parseInt(split(sliceFrom(r, 1), ".")[1]) > 0

numbers(q) == <<parseInt(q[1]), parseInt(q[2]), parseInt(q[3])>>

\* v is M'.m'.p' or M'.m'.p'-tag
isVersion(v) == Len(split(split(v, "-")[1], ".")) = 3 /\ \A k \in 1..3 : isNumeric(split(split(v, "-")[1], ".")[k])

isRelease(v) == ~includes(v, "-")

\* v has the major of the caret range r and is not below the version r names
\* (a prerelease M.m.p-tag is below M.m.p)
sameMajorAndAtLeast(v, r) ==
    /\ isVersion(v)
    /\ numbers(split(split(v, "-")[1], "."))[1] = numbers(split(sliceFrom(r, 1), "."))[1]
    /\ \/ tupleLess(numbers(split(sliceFrom(r, 1), ".")), numbers(split(split(v, "-")[1], ".")))
       \/ (numbers(split(sliceFrom(r, 1), ".")) = numbers(split(split(v, "-")[1], ".")) /\ isRelease(v))

\* the package entry lists a conflict for the requirement
conflictListed(x) == \E c \in Range(x.entry.conflicts) : c.package = x.entry.name /\ c.peerDependency = x.info.name /\ c.required = x.info.requiredVersion /\ c.installed = x.info.installedVersion

\* C7 as claimed: for every caret range ^M.m.p with M > 0 and every installed version v
\* the requirement is compatible exactly when v has major M and v >= M.m.p, and an
\* incompatible requirement that is not optional is listed as a conflict
C7_Original ==
    peerAnalysed => \A x \in examined : (x.info.installed /\ isCaretRange(x.info.requiredVersion)) =>
        /\ x.info.isCompatible <=> sameMajorAndAtLeast(x.info.installedVersion, x.info.requiredVersion)
        /\ (~x.info.isCompatible /\ ~x.info.isOptional) => conflictListed(x)

\* C7 amended: the equivalence holds for every installed release version; an installed
\* prerelease version is compatible with no caret range over a release version; an
\* incompatible requirement that is not optional is listed as a conflict
C7_CaretSemantics ==
    peerAnalysed => \A x \in examined : (x.info.installed /\ isCaretRange(x.info.requiredVersion)) =>
        /\ isRelease(x.info.installedVersion) => (x.info.isCompatible <=> sameMajorAndAtLeast(x.info.installedVersion, x.info.requiredVersion))
        /\ ~isRelease(x.info.installedVersion) => ~x.info.isCompatible
        /\ (~x.info.isCompatible /\ ~x.info.isOptional) => conflictListed(x)

\* C7 witness: ^16.8.0 has been examined against the installed 17.0.0 for a peer that
\* is not optional, found incompatible and listed as a conflict
C7_Witness ==
    peerAnalysed /\ \E x \in examined : x.info.requiredVersion = "^16.8.0" /\ x.info.installedVersion = "17.0.0" /\ ~x.info.isOptional /\ ~x.info.isCompatible /\ conflictListed(x)

\* the packages that require the peer with the range
requiredBy(range) == {e.name : e \in {n \in Range(project.nodeModules) : n.kind = "pkg" /\ \E k \in 1..Len(n.peerDependencies) : n.peerDependencies[k] = [name |-> "react", range |-> range]}}

crossConflicts == {c \in Range(peerAnalyzer.analysis.conflicts) : c.type = "cross-package-conflict"}

\* C8: two installed packages that require ^16.0.0 and ^17.0.0 of react produce exactly
\* one cross-package conflict and it names both requiring packages
C8_DisjointRangesOneConflict ==
    (peerAnalysed /\ requiredBy("^16.0.0") = {"pkg-a"} /\ requiredBy("^17.0.0") = {"pkg-b"}) =>
        /\ Cardinality(crossConflicts) = 1
        /\ \A c \in crossConflicts : c.package = "react" /\ {c.requirements[k].package : k \in 1..Len(c.requirements)} = {"pkg-a", "pkg-b"}

\* C8 witness: the analysis of such a project has ended without a cross-package conflict
C8_Witness == peerAnalysed /\ requiredBy("^16.0.0") = {"pkg-a"} /\ requiredBy("^17.0.0") = {"pkg-b"} /\ crossConflicts = {}

\* the entries of the missing list of PeerDependencyAnalyzer.analyze() for package P and peer N
missingFor(P, N) == {i \in 1..Len(peerAnalyzer.analysis.missing) : peerAnalyzer.analysis.missing[i].package = P /\ peerAnalyzer.analysis.missing[i].peerDependency = N}

\* node_modules holds a package named N whose package.json parses
peerInstalled(N) == \E e \in Range(project.nodeModules) : e.name = N /\ e.kind = "pkg"

\* C15: for every installed package P and every peer N it requires, the missing list
\* holds exactly one entry (P, N) when N is not installed and the requirement is not
\* optional, and none when N is installed or the requirement is optional
C15_MissingPeers ==
    peerAnalysed => \A P \in {e \in Range(project.nodeModules) : e.kind = "pkg"} : \A k \in 1..Len(P.peerDependencies) :
        Cardinality(missingFor(P.name, P.peerDependencies[k].name)) =
            IF ~peerInstalled(P.peerDependencies[k].name) /\ P.peerDependencies[k].name \notin P.optional THEN 1 ELSE 0

\* C15 witness: react is not installed, pkg-a requires it optionally and pkg-b
\* requires it; the missing list holds the entry of pkg-b and nothing else
C15_Witness ==
    /\ peerAnalysed /\ ~peerInstalled("react")
    /\ \E e \in Range(project.nodeModules) : e.name = "pkg-a" /\ "react" \in e.optional
    /\ Len(peerAnalyzer.analysis.missing) = 1 /\ Cardinality(missingFor("pkg-b", "react")) = 1

\* C16: a requirement whose peer is installed is listed as a conflict, with the requiring
\* package, the required range and the installed version, exactly when the installed
\* version does not satisfy the range, whatever the optional flag
C16_ConflictWhenUnsatisfied ==
    peerAnalysed => \A x \in examined : x.info.installed => (conflictListed(x) <=> ~satisfies(x.info.installedVersion, x.info.requiredVersion))

\* C16 witness: an optional requirement ^16.8.0 was examined against the installed
\* 17.0.0 and no conflict was listed for it
C16_Witness ==
    peerAnalysed /\ \E x \in examined : x.info.isOptional /\ x.info.requiredVersion = "^16.8.0" /\ x.info.installedVersion = "17.0.0" /\ ~x.info.isCompatible /\ ~conflictListed(x)

\* C17: a requirement whose range semver cannot parse gets the judgement of the coarse
\* major-version check of fallbackCompatibilityCheck, and the entry carries a
\* confidence flag
C17_UnparseableFallsBack ==
    peerAnalysed => \A x \in examined : (x.info.installed /\ ~validRange(x.info.requiredVersion)) =>
        /\ x.info.isCompatible = manualCheck(x.info.requiredVersion, x.info.installedVersion)
        /\ "confidence" \in DOMAIN x.info

\* C17 witness: the range ^16.8.0.1 was examined against the installed 16.9.0; the
\* coarse check accepts it, the requirement was judged incompatible and listed as a
\* conflict of severity high like any other
C17_Witness ==
    peerAnalysed /\ \E x \in examined :
        /\ x.info.requiredVersion = "^16.8.0.1" /\ x.info.installedVersion = "16.9.0" /\ ~x.info.isOptional
        /\ manualCheck(x.info.requiredVersion, x.info.installedVersion)
        /\ ~x.info.isCompatible
        /\ conflictListed(x) /\ \A c \in Range(x.entry.conflicts) : c.severity = "high"

\* C19: at return from a successful analyze() every summary count equals the length
\* of its issue list
C19_SummaryMatchesLists ==
    (pc = "returned" /\ advanced.result.success) =>
        /\ advanced.result.summary.unused = Len(advanced.result.unused)
        /\ advanced.result.summary.missing = Len(advanced.result.missing)
        /\ advanced.result.summary.phantom = Len(advanced.result.phantom)
        /\ advanced.result.summary.peerConflicts = Len(advanced.result.peerConflicts)
        /\ advanced.result.summary.circular = Len(advanced.result.circular)

\* C19 witness: analyze() has returned successfully with a missing-peer entry in the
\* missing list and a smaller missing count
C19_Witness ==
    /\ pc = "returned" /\ advanced.result.success
    /\ \E i \in 1..Len(advanced.result.missing) : "requiredBy" \in DOMAIN advanced.result.missing[i]
    /\ advanced.result.summary.missing < Len(advanced.result.missing)


(***************************************************************************)
(* Specification SpecCycle: the three analyzers search one project of three *)
(* modules for import cycles. AdvancedDependencyAnalyzer runs up to its     *)
(* analyzeImports step; EnhancedDependencyAnalyzer and the legacy           *)
(* DependencyAnalyzer run the steps of analyze() that build and search the  *)
(* graph, each at its own pace.                                            *)
(***************************************************************************)
\* most import references a project of SpecCycle holds over all of its files
MaxEdges == 3

ModuleNames == <<"a", "b", "c">>

\* layout "flat": /p/a.js imports './b'; layout "index": /p/a/index.js imports '../b'
cycleFile(layout, n) == IF layout = "flat" THEN "/p/" \o n \o ".js" ELSE "/p/" \o n \o "/index.js"

cycleSpecifier(layout, n) == IF layout = "flat" THEN "./" \o n ELSE "../" \o n

\* the orders in which the directory listing can return the three files
ListingOrders == {q \in [1..Len(ModuleNames) -> 1..Len(ModuleNames)] : \A i, j \in 1..Len(ModuleNames) : q[i] = q[j] => i = j}

\* import references <<importing module, imported module>>, grouped by importing
\* module, in the order of the references of each file; no module imports itself, a
\* module can reference another more than once
EdgeLists ==
    {e \in SeqsUpTo({p \in (1..Len(ModuleNames)) \X (1..Len(ModuleNames)) : p[1] # p[2]}, MaxEdges) :
        \A i, j \in 1..Len(e) : i < j => e[i][1] <= e[j][1]}

RECURSIVE edgeSpecifiers(_, _, _, _)
\* the specifiers module k imports, in source order
edgeSpecifiers(layout, e, k, i) ==
    IF i > Len(e) THEN <<>>
    ELSE (IF e[i][1] = k THEN <<cycleSpecifier(layout, ModuleNames[e[i][2]])>> ELSE <<>>) \o edgeSpecifiers(layout, e, k, i + 1)

CycleProjects ==
   {[sourceFiles |-> [i \in 1..Len(ModuleNames) |-> cycleFile(layout, ModuleNames[order[i]])],
     fileImports |-> [x \in {cycleFile(layout, ModuleNames[k]) : k \in 1..Len(ModuleNames)} |->
                        importsOf(edgeSpecifiers(layout, e, CHOOSE k \in 1..Len(ModuleNames) : cycleFile(layout, ModuleNames[k]) = x, 1))],
     fsFiles |-> {cycleFile(layout, ModuleNames[k]) : k \in 1..Len(ModuleNames)},
     packageJson |-> manifestOf(<<>>, <<>>), nodeModules |-> <<>>, options |-> DefaultOptions,
     tsconfig |-> NoTsConfig, aliasConfig |-> <<>>] : layout \in {"flat", "index"}, order \in ListingOrders, e \in EdgeLists}

NewEnhanced == [pc |-> "analyzeImports", importMap |-> <<>>, dependencyGraph |-> <<>>, circular |-> <<>>, summaryCircular |-> 0, success |-> TRUE, error |-> Null]

NewLegacy == [pc |-> "analyzeSourceFiles", dependencyGraph |-> <<>>, circularPaths |-> <<>>, circular |-> <<>>, summaryCircular |-> 0]

InitCycle ==
    /\ project \in CycleProjects
    /\ importAnalyzer = NewImportAnalyzer
    /\ advanced = NewAdvanced
    /\ peerAnalyzer = Idle
    /\ legacy = NewLegacy
    /\ enhanced = NewEnhanced
    /\ resolver = Idle
    /\ pc = "initialize"

\* what analyzeImportsSequential leaves in the analyzer: the import map, the graph and
\* either the cycles or, when the search threw, the error set by the catch clause of
\* analyze()
enhancedOutcome(graph, search) ==
    IF search.threw
    THEN [enhanced EXCEPT !.pc = "returned", !.importMap = analyzeFiles(getSourceFiles), !.dependencyGraph = graph, !.success = FALSE, !.error = "path.relative is not a function"]
    ELSE [enhanced EXCEPT !.pc = "findUnusedDependencies", !.importMap = analyzeFiles(getSourceFiles), !.dependencyGraph = graph,
                          !.circular = [k \in 1..Len(search.cycles) |-> [path |-> search.cycles[k], severity |-> cycleSeverity(search.cycles[k])]],
                          !.summaryCircular = Len(search.cycles)]

\* analyze() takes the parallel path for more than this number of files
ParallelThreshold == 100

\* batchSize of analyzeImportsParallel
BatchSize == 50

RECURSIVE analyzeImportsParallel(_, _, _)
\* what analyzeImportsParallel pushes for sourceFiles[lo..hi]: one batch of BatchSize
\* files after the other, and the results of a batch in the order of its files
\* (Promise.all keeps the order; within a batch first half, then second half). Each
\* usage takes its file from imp.file, a property that no extracted import has: it
\* is undefined
analyzeImportsParallel(sourceFiles, lo, hi) ==
    IF lo > hi THEN <<>>
    ELSE IF lo = hi THEN addFileImports(<<>>, Null, analyzeFile(sourceFiles[lo]), 1)
    ELSE IF hi - lo >= BatchSize THEN mapMerge(analyzeImportsParallel(sourceFiles, lo, lo + BatchSize - 1), analyzeImportsParallel(sourceFiles, lo + BatchSize, hi), 1, 1)
    ELSE mapMerge(analyzeImportsParallel(sourceFiles, lo, (lo + hi) \div 2), analyzeImportsParallel(sourceFiles, (lo + hi) \div 2 + 1, hi), 1, 1)

\* EnhancedDependencyAnalyzer.analyze() on its parallel path: analyzeImportsParallel
\* assigns importMap and nothing else (no graph is built, no cycle search runs)
EnhancedAnalyzeImportsParallel ==
    /\ enhanced.pc = "analyzeImports"
    /\ project.options.parallel /\ Len(getSourceFiles) > ParallelThreshold
    /\ enhanced' = [enhanced EXCEPT !.pc = "findUnusedDependencies", !.importMap = analyzeImportsParallel(getSourceFiles, 1, Len(getSourceFiles))]
    /\ UNCHANGED <<project, importAnalyzer, advanced, peerAnalyzer, legacy, resolver, pc>>

\* EnhancedDependencyAnalyzer.analyze() on its sequential path: analyzeImportsSequential
\* with buildDependencyGraph and detectCircularDependencies (its ImportAnalyzer is
\* configured like importAnalyzer)
EnhancedAnalyzeImports ==
    /\ enhanced.pc = "analyzeImports"
    /\ ~(project.options.parallel /\ Len(getSourceFiles) > ParallelThreshold)
    /\ enhanced' = enhancedOutcome(buildDependencyGraph(getSourceFiles), enhancedDetectCircularDependencies(buildDependencyGraph(getSourceFiles)))
    /\ UNCHANGED <<project, importAnalyzer, advanced, peerAnalyzer, legacy, resolver, pc>>

\* DependencyAnalyzer.analyzeSourceFiles: analyzeFile on every source file
LegacyAnalyzeSourceFiles ==
    /\ legacy.pc = "analyzeSourceFiles"
    /\ legacy' = [legacy EXCEPT !.pc = "detectCircularDependencies", !.dependencyGraph = legacyAnalyzeSourceFiles(getSourceFiles)]
    /\ UNCHANGED <<project, importAnalyzer, advanced, peerAnalyzer, enhanced, resolver, pc>>

\* the assignments that end DependencyAnalyzer.detectCircularDependencies
legacyOutcome(found) == [legacy EXCEPT !.pc = "returned", !.circularPaths = found, !.circular = found, !.summaryCircular = Len(found)]

\* DependencyAnalyzer.detectCircularDependencies (the find* steps before it leave
\* dependencyGraph and circularPaths as they are)
LegacyDetectCircularDependencies ==
    /\ legacy.pc = "detectCircularDependencies"
    /\ legacy' = legacyOutcome(legacyDetectCircularDependencies(legacy.dependencyGraph))
    /\ UNCHANGED <<project, importAnalyzer, advanced, peerAnalyzer, enhanced, resolver, pc>>

NextCycle ==
    \/ Initialize
    \/ LoadPackageJson
    \/ AnalyzeImports
    \/ EnhancedAnalyzeImports
    \/ LegacyAnalyzeSourceFiles
    \/ LegacyDetectCircularDependencies

SpecCycle == InitCycle /\ [][NextCycle]_vars

(***************************************************************************)
(* Cycle properties, checked under SpecCycle                               *)
(***************************************************************************)
\* the edges of a dependency graph whose deps are resolved files
edgesOf(graph) == UNION {{<<graph[i].file, d>> : d \in Range(graph[i].deps)} : i \in 1..Len(graph)}

\* the edges the legacy search follows: each import reference resolved by resolveImportPath
legacyEdgesOf(graph) ==
    {e \in UNION {{<<graph[i].file, legacyResolveImportPath(graph, graph[i].file, imp.module)>> : imp \in Range(graph[i].deps)} : i \in 1..Len(graph)} : e[2] # Null}

successors(E, S) == {e[2] : e \in {x \in E : x[1] \in S}}

RECURSIVE reachFrom(_, _)
\* the nodes reachable from the set S along edges of E, S included
reachFrom(E, S) == IF successors(E, S) \subseteq S THEN S ELSE reachFrom(E, S \cup successors(E, S))

acyclic(E) == \A e \in E : e[1] \notin reachFrom(E, successors(E, {e[1]}))

\* the only edges are A->B, B->C, C->A for three different files
isTriangle(E) == \E a, b, c \in Range(project.sourceFiles) : a # b /\ b # c /\ a # c /\ E = {<<a, b>>, <<b, c>>, <<c, a>>}

\* an acyclic graph in which file c is reached from a directly and through b
isDiamond(E) == acyclic(E) /\ \E a, b, c \in Range(project.sourceFiles) : {<<a, b>>, <<a, c>>, <<b, c>>} \subseteq E

\* analyzeImports of AdvancedDependencyAnalyzer has run
advancedSearched == pc \in {"analyzePeerDependencies", "returned"}

enhancedSearched == enhanced.pc # "analyzeImports"

legacySearched == legacy.pc = "returned"

\* the list holds one cycle and its nodes are exactly the project's files
oneCycleOverAll(circular) == Len(circular) = 1 /\ Range(circular[1].path) = {pathRelative(ProjectPath, f) : f \in Range(project.sourceFiles)}

\* C4: on the triangle A->B->C->A the search of AdvancedDependencyAnalyzer and of
\* EnhancedDependencyAnalyzer ends without an error and records exactly one cycle
\* whose nodes are A, B and C, whichever file is listed first
C4_TriangleOneCycle ==
    /\ (advancedSearched /\ isTriangle(edgesOf(advanced.dependencyGraph))) => (advanced.result.success /\ oneCycleOverAll(advanced.result.circular))
    /\ (enhancedSearched /\ isTriangle(edgesOf(enhanced.dependencyGraph))) => (enhanced.success /\ oneCycleOverAll(enhanced.circular))

\* C4 witness: both searches have run on a triangle and both ended in the catch clause
C4_Witness ==
    /\ advancedSearched /\ isTriangle(edgesOf(advanced.dependencyGraph)) /\ ~advanced.result.success /\ advanced.result.circular = <<>>
    /\ enhancedSearched /\ isTriangle(edgesOf(enhanced.dependencyGraph)) /\ ~enhanced.success /\ enhanced.circular = <<>>

\* C5: on an acyclic import graph every search ends without an error and reports
\* zero cycles, in every listing order of the files
C5_AcyclicNoCycles ==
    /\ (legacySearched /\ acyclic(legacyEdgesOf(legacy.dependencyGraph))) => (legacy.circular = <<>> /\ legacy.summaryCircular = 0)
    /\ (advancedSearched /\ acyclic(edgesOf(advanced.dependencyGraph))) => (advanced.result.success /\ advanced.result.circular = <<>> /\ advanced.result.summary.circular = 0)
    /\ (enhancedSearched /\ acyclic(edgesOf(enhanced.dependencyGraph))) => (enhanced.success /\ enhanced.circular = <<>> /\ enhanced.summaryCircular = 0)

\* C5 witness: the legacy search has run on a graph in which a file is reached along
\* two different paths and has reported nothing
C5_Witness == legacySearched /\ isDiamond(legacyEdgesOf(legacy.dependencyGraph)) /\ legacy.circular = <<>>

\* c.js imports './a', a.js imports './b', b.js imports './a', nothing else
scenarioC6 ==
    /\ "/p/a.js" \in project.fsFiles
    /\ project.fileImports["/p/c.js"] = importsOf(<<"./a">>)
    /\ project.fileImports["/p/a.js"] = importsOf(<<"./b">>)
    /\ project.fileImports["/p/b.js"] = importsOf(<<"./a">>)

\* C6: on that project the legacy DependencyAnalyzer reports exactly one circular-import issue
C6_ScenarioOneCycle == (legacySearched /\ scenarioC6) => (Len(legacy.circular) = 1 /\ legacy.summaryCircular = 1)

\* C6 witness: the legacy analyzer has finished that project with an empty circular list
C6_Witness == legacySearched /\ scenarioC6 /\ legacy.circular = <<>> /\ legacyEdgesOf(legacy.dependencyGraph) = {}

\* the characters of the file names in code unit order
codeUnitOrder == <<".", "/", "a", "b", "c", "d", "e", "i", "j", "n", "s", "x">>

\* s sorts before t, code unit by code unit (the order of Array.prototype.sort)
lexLess(s, t) ==
    \E i \in 1..(Len(s) + 1) :
        /\ i <= Len(t)
        /\ SubSeq(s, 1, i - 1) = SubSeq(t, 1, i - 1)
        /\ (i = Len(s) + 1 \/ indexOf(codeUnitOrder, SubSeq(s, i, i)) < indexOf(codeUnitOrder, SubSeq(t, i, i)))

\* C11: the cycles reported by the legacy DependencyAnalyzer are canonical: every
\* cycle starts at its lexicographically smallest file and no cycle is listed twice
C11_CanonicalCycles ==
    legacySearched =>
        /\ \A k \in 1..Len(legacy.circular) : \A n \in Range(legacy.circular[k].path) : ~lexLess(n, legacy.circular[k].path[1])
        /\ \A i, j \in 1..Len(legacy.circular) : i # j => legacy.circular[i].path # legacy.circular[j].path

\* C11 witness: the legacy search has reported a cycle that starts at a file other
\* than its smallest
C11_Witness == legacySearched /\ \E k \in 1..Len(legacy.circular) : \E n \in Range(legacy.circular[k].path) : lexLess(n, legacy.circular[k].path[1])

severityRank(severity) == IF severity = "high" THEN 3 ELSE IF severity = "medium" THEN 2 ELSE 1

\* C24: a cycle of 2 or 3 distinct files is reported with severity high by the legacy
\* DependencyAnalyzer (so [moduleA, moduleB, moduleA] is high), and the severity never
\* increases with the length of the cycle
C24_SmallCyclesHigh ==
    /\ legacySearched => \A k \in 1..Len(legacy.circular) :
          Cardinality(Range(legacy.circular[k].path)) \in {2, 3} => legacy.circular[k].severity = "high"
    /\ \A a, b \in 1..8 : a <= b => severityRank(assessCycleSeverity(b)) <= severityRank(assessCycleSeverity(a))

\* C24 witness: the legacy search has reported the two-file cycle [a, b, a] as medium
C24_Witness ==
    legacySearched /\ \E k \in 1..Len(legacy.circular) :
        /\ Len(legacy.circular[k].path) = 3 /\ legacy.circular[k].path[1] = legacy.circular[k].path[3]
        /\ Cardinality(Range(legacy.circular[k].path)) = 2
        /\ legacy.circular[k].severity = "medium"

\* file x references file y, and y holds more than one reference to x (references as
\* the legacy resolveImportPath resolves them)
closedTwice(x, y) ==
    /\ \E k \in 1..Len(project.fileImports[x]) : legacyResolveImportPath(legacy.dependencyGraph, x, project.fileImports[x][k].module) = y
    /\ Cardinality({k \in 1..Len(project.fileImports[y]) : legacyResolveImportPath(legacy.dependencyGraph, y, project.fileImports[y][k].module) = x}) >= 2

\* C28: when a file references the same local file more than once and that reference
\* closes a cycle, the legacy DependencyAnalyzer does not report the cycle through
\* the two files once per reference: it lists it at most once
C28_DuplicateEdgesCollapse ==
    legacySearched => \A x, y \in Range(project.sourceFiles) : (x # y /\ closedTwice(x, y)) =>
        Cardinality({k \in 1..Len(legacy.circular) : Range(legacy.circular[k].path) = {pathRelative(ProjectPath, x), pathRelative(ProjectPath, y)}}) <= 1

\* C28 witness: a file imports b once, b imports a twice, and the legacy search has
\* listed the cycle through a and b twice
C28_Witness ==
    /\ legacySearched
    /\ \E x, y \in Range(project.sourceFiles) : x # y /\ Len(project.fileImports[x]) = 1 /\ closedTwice(x, y)
    /\ Len(legacy.circular) = 2 /\ legacy.circular[1].path = legacy.circular[2].path


(***************************************************************************)
(* Specification SpecResolve: calls of ImportAnalyzer.resolveImportPath on  *)
(* an initialized analyzer, in any order; resolver.calls records each call  *)
(* with the value it returned                                              *)
(***************************************************************************)
\* most calls of resolveImportPath in one behaviour
MaxCalls == 3

\* compilerOptions of tsconfig.json: none, an "@/*" mapping, a catch-all "*" mapping
TsConfigs ==
    { NoTsConfig,
      [present |-> TRUE, baseUrl |-> ".", paths |-> <<[pattern |-> "@/*", targets |-> <<"src/*">>]>>],
      [present |-> TRUE, baseUrl |-> ".", paths |-> <<[pattern |-> "*", targets |-> <<"types/*">>]>>] }

\* the aliases read from the bundler configuration
AliasConfigs ==
    { <<>>,
      <<[alias |-> "@/*", target |-> "src/*"]>>,
      <<[alias |-> "./lib/*", target |-> "src/sub/*"], [alias |-> "./b", target |-> "src/a.js"]>> }

ResolveProjects ==
    {[sourceFiles |-> <<"/p/src/a.js", "/p/src/b.js", "/p/src/sub/c.js">>,
      fileImports |-> [x \in {"/p/src/a.js", "/p/src/b.js", "/p/src/sub/c.js"} |-> <<>>],
      fsFiles |-> {"/p/src/a.js", "/p/src/b.js", "/p/src/sub/c.js", "/p/types/b.ts"},
      packageJson |-> manifestOf(<<>>, <<>>), nodeModules |-> <<>>, options |-> DefaultOptions,
      tsconfig |-> ts, aliasConfig |-> al] : ts \in TsConfigs, al \in AliasConfigs}

InitResolve ==
    /\ project \in ResolveProjects
    /\ importAnalyzer = NewImportAnalyzer
    /\ advanced = Idle
    /\ peerAnalyzer = Idle
    /\ legacy = Idle
    /\ enhanced = Idle
    /\ resolver = [calls |-> <<>>]
    /\ pc = "initialize"

\* a call of resolveImportPath that also drops the tsconfig it has read
Resolve_dropsTsConfig(importName, fromFile) ==
    /\ pc # "initialize"
    /\ Len(resolver.calls) < MaxCalls
    /\ resolver' = [calls |-> Append(resolver.calls, [importName |-> importName, fromFile |-> fromFile, result |-> resolveImportPath(importName, fromFile)])]
    /\ importAnalyzer' = [importAnalyzer EXCEPT !.tsConfig = NoTsConfig]
    /\ UNCHANGED <<project, advanced, peerAnalyzer, legacy, enhanced, pc>>

\* one call resolveImportPath(importName, fromFile) after initialize(): it reads
\* tsConfig, aliases and the file tree and assigns nothing
Resolve(importName, fromFile) ==
    /\ pc # "initialize"
    /\ Len(resolver.calls) < MaxCalls
    /\ resolver' = [calls |-> Append(resolver.calls, [importName |-> importName, fromFile |-> fromFile, result |-> resolveImportPath(importName, fromFile)])]
    /\ UNCHANGED <<project, importAnalyzer, advanced, peerAnalyzer, legacy, enhanced, pc>>

NextResolve ==
    \/ Initialize
    \/ \E importName \in {"./b", "../a", "./lib/c", "lodash"}, fromFile \in {"/p/src/a.js", "/p/src/sub/c.js"} : Resolve(importName, fromFile)

SpecResolve == InitResolve /\ [][NextResolve]_vars


(***************************************************************************)
(* Resolution properties, checked under SpecResolve                        *)
(***************************************************************************)
samePair(x, y) == x.importName = y.importName /\ x.fromFile = y.fromFile

C13_RelativeFirst ==
    \A i \in 1..Len(resolver.calls) : isRelativeImport(resolver.calls[i].importName) =>
        resolver.calls[i].result = tryExtensions(pathResolve(pathDirname(resolver.calls[i].fromFile), resolver.calls[i].importName), 1)

\* C13 witness: './b' imported by /p/src/a.js, next to which b.js exists, has been
\* resolved to another file through a tsconfig pattern or an alias that matches it
C13_Witness ==
    \E i \in 1..Len(resolver.calls) :
        /\ resolver.calls[i].importName = "./b" /\ resolver.calls[i].fromFile = "/p/src/a.js"
        /\ (resolveTypeScriptPath("./b") # Null \/ resolveAlias("./b") # Null)
        /\ resolver.calls[i].result # "/p/src/b.js"


(***************************************************************************)
(* Specification SpecAlias: AdvancedDependencyAnalyzer.analyze() on         *)
(* projects with a tsconfig path mapping or bundler aliases whose files     *)
(* import mapped specifiers and subpaths of declared packages               *)
(***************************************************************************)
InitAlias ==
    /\ project \in
         {[sourceFiles |-> <<"/p/src/a.js", "/p/src/b.js">>, fileImports |-> fi, fsFiles |-> {"/p/src/a.js", "/p/src/b.js"},
           packageJson |-> manifestOf(<<[name |-> "lodash", version |-> "^4.17.21"], [name |-> "@scope/name", version |-> "^1.0.0"]>>, <<>>),
           nodeModules |-> nm, options |-> DefaultOptions, tsconfig |-> ts, aliasConfig |-> al] :
             fi \in ImportAssignments(<<"/p/src/a.js", "/p/src/b.js">>, {"@/b", "lodash/fp", "@scope/name/sub", "./b"}, MaxImports),
             nm \in {<<>>, <<nmEntry("lodash", "pkg", "4.17.21", <<>>)>>},
             ts \in TsConfigs, al \in AliasConfigs}
    /\ importAnalyzer = NewImportAnalyzer
    /\ advanced = NewAdvanced
    /\ peerAnalyzer = NewPeerAnalyzer
    /\ legacy = Idle
    /\ enhanced = Idle
    /\ resolver = Idle
    /\ pc = "initialize"

SpecAlias == InitAlias /\ [][Next]_vars


(***************************************************************************)
(* Subpath and mapping properties, checked under SpecAlias                  *)
(***************************************************************************)
\* the specifiers of the import references of the scanned files
importedSpecifiers == UNION {{project.fileImports[f][k].module : k \in 1..Len(project.fileImports[f])} : f \in Range(project.sourceFiles)}

\* the package a bare specifier belongs to: @scope/name of a scoped one, else its first segment
owningPackage(n) ==
    IF startsWith(n, "@") /\ Len(split(n, "/")) >= 2 THEN split(n, "/")[1] \o "/" \o split(n, "/")[2] ELSE split(n, "/")[1]

\* C12: a declared package of which some file imports a subpath is not listed unused,
\* and the subpath specifier is listed neither missing nor phantom
C12_SubpathOwnsPackage ==
    classifyDone => \A n \in importedSpecifiers : (bareExternal(n) /\ owningPackage(n) # n /\ owningPackage(n) \in declaredNames) =>
        (owningPackage(n) \notin unusedNames /\ n \notin missingNames /\ n \notin phantomNames)

\* C12 witness: 'lodash/fp' is imported and lodash is declared; lodash has been listed
\* unused and 'lodash/fp' has been listed missing
C12_Witness ==
    classifyDone /\ "lodash/fp" \in importedSpecifiers /\ "lodash" \in declaredNames /\ "lodash" \in unusedNames /\ "lodash/fp" \in missingNames

\* the bare specifier matches a tsconfig paths pattern or a loaded alias
mapped(n) == ~isRelativeImport(n) /\ (resolveTypeScriptPath(n) # Null \/ resolveAlias(n) # Null)

\* the file the mapping substitutes for n, after the extension fallback
mappedTarget(n) == tryExtensions(IF resolveAlias(n) # Null THEN resolveAlias(n) ELSE resolveTypeScriptPath(n), 1)

\* C14: a bare specifier that matches a tsconfig paths pattern or an alias is resolved
\* to a local file, gives a graph edge when that file is scanned and is listed neither
\* missing nor phantom
C14_MappedIsLocal ==
    classifyDone => \A n \in importedSpecifiers : mapped(n) =>
        /\ n \notin missingNames /\ n \notin phantomNames
        /\ \A f \in Range(project.sourceFiles) :
              (n \in {project.fileImports[f][k].module : k \in 1..Len(project.fileImports[f])} /\ mappedTarget(n) \in Range(project.sourceFiles))
                  => (resolveImportPath(n, f) = mappedTarget(n) /\ <<f, mappedTarget(n)>> \in edgesOf(advanced.dependencyGraph))

\* C14 witness: '@/b' is imported by a.js under the mapping "@/*" -> "src/*" of
\* tsconfig, which names the scanned b.js; the analysis has listed '@/b' missing and
\* the graph has no edge from a.js
C14_Witness ==
    /\ classifyDone /\ importAnalyzer.tsConfig.present /\ importAnalyzer.tsConfig.paths[1].pattern = "@/*"
    /\ project.fileImports["/p/src/a.js"] = importsOf(<<"@/b">>)
    /\ mappedTarget("@/b") = "/p/src/b.js"
    /\ "@/b" \in missingNames
    /\ edgesOf(advanced.dependencyGraph) = {}


(***************************************************************************)
(* Specification SpecEnhanced: the import analysis of                       *)
(* EnhancedDependencyAnalyzer.analyze() with the parallel option on or off, *)
(* on the projects of SpecCycle as they are and with files without imports  *)
(* added until the parallel path is taken                                  *)
(***************************************************************************)
\* most files without imports added to a project
MaxFiller == 98

InitEnhanced ==
    /\ project \in
         {[p EXCEPT !.options.parallel = parallel,
                    !.sourceFiles = @ \o [i \in 1..n |-> "/p/f" \o ToString(i) \o ".js"],
                    !.fsFiles = @ \cup {"/p/f" \o ToString(i) \o ".js" : i \in 1..n},
                    !.fileImports = [x \in DOMAIN p.fileImports \cup {"/p/f" \o ToString(i) \o ".js" : i \in 1..n} |->
                                       IF x \in DOMAIN p.fileImports THEN p.fileImports[x] ELSE <<>>]] :
             p \in CycleProjects, parallel \in BOOLEAN, n \in {0, MaxFiller}}
    /\ importAnalyzer = NewImportAnalyzer
    /\ advanced = Idle
    /\ peerAnalyzer = Idle
    /\ legacy = Idle
    /\ enhanced = NewEnhanced
    /\ resolver = Idle
    /\ pc = "initialize"

NextEnhanced ==
    \/ EnhancedAnalyzeImports
    \/ EnhancedAnalyzeImportsParallel

SpecEnhanced == InitEnhanced /\ [][NextEnhanced]_vars


(***************************************************************************)
(* Path equivalence, checked under SpecEnhanced                            *)
(***************************************************************************)
\* the import analysis has run on the parallel path
tookParallel == enhanced.pc # "analyzeImports" /\ project.options.parallel /\ Len(project.sourceFiles) > ParallelThreshold

\* C20: the parallel path leaves the import map, with the same file, line and type in
\* every usage, and the list of cycles that the sequential path leaves for the same files
C20_ParallelEqualsSequential ==
    tookParallel =>
        /\ enhanced.importMap = analyzeFiles(getSourceFiles)
        /\ enhanced.success = ~enhancedDetectCircularDependencies(buildDependencyGraph(getSourceFiles)).threw
        /\ enhanced.circular = enhancedDetectCircularDependencies(buildDependencyGraph(getSourceFiles)).cycles

\* C20 witness: the parallel path has run on a project with imports; every usage it
\* recorded has no file, and a.js and b.js import each other, which the
\* sequential path ends on with an error, while the run succeeded with no cycle
C20_Witness ==
    /\ tookParallel /\ enhanced.success /\ enhanced.circular = <<>>
    /\ enhanced.importMap # <<>>
    /\ \A e \in Range(enhanced.importMap) : \A u \in Range(e.usages) : u.file = Null
    /\ {<<"/p/a.js", "/p/b.js">>, <<"/p/b.js", "/p/a.js">>} \subseteq edgesOf(buildDependencyGraph(getSourceFiles))
    /\ enhancedDetectCircularDependencies(buildDependencyGraph(getSourceFiles)).threw


(***************************************************************************)
(* Specification SpecScan: getSourceFiles of the three analyzers on a       *)
(* directory tree. project.tree gives every directory its readdir listing   *)
(* ([name, isDirectory] in listing order), project.unreadable the paths     *)
(* whose readdir / readFile fails and project.unparseable the files that    *)
(* acorn rejects. AdvancedDependencyAnalyzer and the legacy                 *)
(* DependencyAnalyzer scan and extract in one step each;                    *)
(* EnhancedDependencyAnalyzer has one step per readdir that completes: the  *)
(* reads in flight (enhanced.pending, in the order they were issued)        *)
(* complete in any order.                                                   *)
(***************************************************************************)
\* shouldExclude(name, relativePath) with its list excludePatterns (relativePath ends
\* with name, so the test name === pattern of enhanced-analyzer.js adds nothing)
shouldExclude(excludePatterns, name, relativePath) ==
    startsWith(name, ".") \/ \E pattern \in excludePatterns : includes(relativePath, pattern) \/ name = pattern

RECURSIVE scanDir(_, _, _)
\* scanDir(dir) of AdvancedDependencyAnalyzer.getSourceFiles from item i of the listing
\* on (i = 0: the readdir); its catch clause leaves sourceFiles as it is
scanDir(dir, i, sourceFiles) ==
    IF i = 0 THEN (IF dir \in project.unreadable THEN sourceFiles ELSE scanDir(dir, 1, sourceFiles))
    ELSE IF i > Len(project.tree[dir]) THEN sourceFiles
    ELSE scanDir(dir, i + 1,
            IF shouldExclude({"node_modules", "dist", "build", "coverage", ".git", ".nyc_output", ".next", ".nuxt", "storybook-static"},
                             project.tree[dir][i].name, pathRelative(ProjectPath, dir \o "/" \o project.tree[dir][i].name))
            THEN sourceFiles
            ELSE IF project.tree[dir][i].isDirectory THEN scanDir(dir \o "/" \o project.tree[dir][i].name, 0, sourceFiles)
            ELSE IF \E ext \in {".js", ".jsx", ".ts", ".tsx", ".vue", ".svelte", ".css", ".scss", ".sass"} : endsWith(project.tree[dir][i].name, ext)
                 THEN Append(sourceFiles, dir \o "/" \o project.tree[dir][i].name)
                 ELSE sourceFiles)

RECURSIVE legacyScanDir(_, _, _)
\* scanDir(dir) of DependencyAnalyzer.getSourceFiles: no try inside, a failing readdir
\* throws through every enclosing scanDir to the catch around scanDir(projectPath)
legacyScanDir(dir, i, st) ==
    IF st.threw THEN st
    ELSE IF i = 0 THEN (IF dir \in project.unreadable THEN [st EXCEPT !.threw = TRUE] ELSE legacyScanDir(dir, 1, st))
    ELSE IF i > Len(project.tree[dir]) THEN st
    ELSE legacyScanDir(dir, i + 1,
            IF \/ startsWith(project.tree[dir][i].name, ".") \/ project.tree[dir][i].name \in {"node_modules", "dist", "build"}
               \/ includes(pathRelative(ProjectPath, dir \o "/" \o project.tree[dir][i].name), "coverage")
            THEN st
            ELSE IF project.tree[dir][i].isDirectory THEN legacyScanDir(dir \o "/" \o project.tree[dir][i].name, 0, st)
            ELSE IF \E ext \in {".js", ".jsx", ".ts", ".tsx", ".mjs", ".cjs"} : endsWith(project.tree[dir][i].name, ext)
                 THEN [st EXCEPT !.sourceFiles = Append(@, dir \o "/" \o project.tree[dir][i].name)]
                 ELSE st)

\* the items of a listing that the callback of items.map does not return on at once
scanned(dir) ==
    SelectSeq(project.tree[dir], LAMBDA item :
        ~shouldExclude({"node_modules", "dist", "build", "coverage", ".git", ".nyc_output", ".next", ".nuxt", "storybook-static", ".cache", ".dependency-cache"},
                       item.name, pathRelative(ProjectPath, dir \o "/" \o item.name)))

\* EnhancedDependencyAnalyzer.getSourceFiles when the readdir of pending[k] completes:
\* a failed read ends in the catch clause; otherwise items.map runs each callback up
\* to its first await, which pushes the supported files in listing order and issues
\* the readdir of every directory, and Promise.all waits for those
readdirDone(scan, k) ==
    IF scan.pending[k] \in project.unreadable
    THEN [scan EXCEPT !.pending = SubSeq(@, 1, k - 1) \o SubSeq(@, k + 1, Len(@))]
    ELSE [scan EXCEPT !.pending = SubSeq(@, 1, k - 1) \o SubSeq(@, k + 1, Len(@))
                                    \o [j \in 1..Len(SelectSeq(scanned(scan.pending[k]), LAMBDA item : item.isDirectory)) |->
                                            scan.pending[k] \o "/" \o SelectSeq(scanned(scan.pending[k]), LAMBDA item : item.isDirectory)[j].name],
                      !.sourceFiles = @ \o [j \in 1..Len(SelectSeq(scanned(scan.pending[k]), LAMBDA item : ~item.isDirectory /\ \E ext \in {".js", ".jsx", ".ts", ".tsx", ".vue", ".svelte", ".css", ".scss", ".sass"} : endsWith(item.name, ext))) |->
                                            scan.pending[k] \o "/" \o SelectSeq(scanned(scan.pending[k]), LAMBDA item : ~item.isDirectory /\ \E ext \in {".js", ".jsx", ".ts", ".tsx", ".vue", ".svelte", ".css", ".scss", ".sass"} : endsWith(item.name, ext))[j].name]]

\* the directory trees: /p with the directories a (holding sub) and b in either listing
\* order, one path unreadable or none, m.js parseable or not
InitScan ==
    /\ project \in
         {[tree |-> [d \in {"/p", "/p/a", "/p/a/sub", "/p/b", "/p/node_modules"} |->
                        IF d = "/p" THEN [j \in 1..5 |-> [name |-> root[j], isDirectory |-> root[j] \in {"a", "b", "node_modules"}]]
                        ELSE IF d = "/p/a" THEN <<[name |-> "a1.js", isDirectory |-> FALSE], [name |-> "sub", isDirectory |-> TRUE]>>
                        ELSE IF d = "/p/a/sub" THEN <<[name |-> "s.ts", isDirectory |-> FALSE]>>
                        ELSE IF d = "/p/b" THEN <<[name |-> "b1.js", isDirectory |-> FALSE], [name |-> "b2.css", isDirectory |-> FALSE]>>
                        ELSE <<[name |-> "x.js", isDirectory |-> FALSE]>>],
           unreadable |-> unreadable, unparseable |-> unparseable,
           fileImports |-> [f \in {"/p/m.js", "/p/a/a1.js", "/p/a/sub/s.ts", "/p/b/b1.js", "/p/b/b2.css"} |->
                               IF f \in unreadable THEN <<>> ELSE importsOf(<<"lodash">>)]] :
             root \in {<<"a", "b", "m.js", "README.md", "node_modules">>, <<"node_modules", "m.js", "b", "a", "README.md">>},
             unreadable \in {{}, {"/p"}, {"/p/a"}, {"/p/a/sub"}, {"/p/b"}, {"/p/b/b1.js"}},
             unparseable \in {{}, {"/p/m.js"}}}
    /\ importAnalyzer = NewImportAnalyzer
    /\ advanced = [pc |-> "getSourceFiles", sourceFiles |-> <<>>, importMap |-> <<>>, warnings |-> <<>>]
    /\ peerAnalyzer = Idle
    /\ legacy = [pc |-> "getSourceFiles", sourceFiles |-> <<>>, dependencyGraph |-> <<>>, warnings |-> <<>>]
    /\ enhanced = [pc |-> "getSourceFiles", pending |-> <<>>, sourceFiles |-> <<>>]
    /\ resolver = Idle
    /\ pc = "analyzeImports"

\* AdvancedDependencyAnalyzer.analyzeImports up to analyzeFiles: nothing in
\* getSourceFiles, analyzeFile or extractJsTsImports writes to result.warnings
AdvancedGetSourceFiles ==
    /\ advanced.pc = "getSourceFiles"
    /\ advanced' = [advanced EXCEPT !.pc = "returned", !.sourceFiles = scanDir(ProjectPath, 0, <<>>), !.importMap = analyzeFiles(scanDir(ProjectPath, 0, <<>>))]
    /\ UNCHANGED <<project, importAnalyzer, peerAnalyzer, legacy, enhanced, resolver, pc>>

\* DependencyAnalyzer.analyzeSourceFiles: getSourceFiles, then analyzeFile on every
\* file; nothing writes to result.warnings
LegacyGetSourceFiles ==
    /\ legacy.pc = "getSourceFiles"
    /\ legacy' = [legacy EXCEPT !.pc = "returned", !.sourceFiles = legacyScanDir(ProjectPath, 0, [sourceFiles |-> <<>>, threw |-> FALSE]).sourceFiles,
                                !.dependencyGraph = legacyAnalyzeSourceFiles(legacyScanDir(ProjectPath, 0, [sourceFiles |-> <<>>, threw |-> FALSE]).sourceFiles)]
    /\ UNCHANGED <<project, importAnalyzer, advanced, peerAnalyzer, enhanced, resolver, pc>>

\* EnhancedDependencyAnalyzer.getSourceFiles is called: scanDir(projectPath) issues the
\* first readdir
EnhancedGetSourceFiles ==
    /\ enhanced.pc = "getSourceFiles"
    /\ enhanced' = [enhanced EXCEPT !.pc = "scanning", !.pending = <<ProjectPath>>]
    /\ UNCHANGED <<project, importAnalyzer, advanced, peerAnalyzer, legacy, resolver, pc>>

\* one readdir in flight completes; getSourceFiles returns when none is left
EnhancedReaddirDone ==
    /\ enhanced.pc = "scanning"
    /\ \E k \in 1..Len(enhanced.pending) :
          enhanced' = [readdirDone(enhanced, k) EXCEPT !.pc = IF readdirDone(enhanced, k).pending = <<>> THEN "returned" ELSE "scanning"]
    /\ UNCHANGED <<project, importAnalyzer, advanced, peerAnalyzer, legacy, resolver, pc>>

SpecScan == InitScan /\ [][AdvancedGetSourceFiles \/ LegacyGetSourceFiles \/ EnhancedGetSourceFiles \/ EnhancedReaddirDone]_vars

(***************************************************************************)
(* Scan properties, checked under SpecScan                                  *)
(***************************************************************************)
RECURSIVE readsInOrder(_)
\* the files of the scan whose reads complete in the order they were issued
readsInOrder(scan) == IF scan.pending = <<>> THEN scan.sourceFiles ELSE readsInOrder(readdirDone(scan, 1))

noDuplicates(q) == \A i, j \in 1..Len(q) : i # j => q[i] # q[j]

\* C21: whatever the order in which the concurrent directory reads complete,
\* EnhancedDependencyAnalyzer.getSourceFiles returns one and the same sequence of
\* paths (the one it returns when the reads complete in the order they were issued),
\* without duplicates
C21_OrderStable ==
    enhanced.pc = "returned" =>
        /\ enhanced.sourceFiles = readsInOrder([pc |-> "scanning", pending |-> <<ProjectPath>>, sourceFiles |-> <<>>])
        /\ noDuplicates(enhanced.sourceFiles)

\* the scan has returned the same files as the in-order scan, in another order
C21_Witness ==
    /\ enhanced.pc = "returned" /\ project.unreadable = {}
    /\ noDuplicates(enhanced.sourceFiles)
    /\ Range(enhanced.sourceFiles) = Range(readsInOrder([pc |-> "scanning", pending |-> <<ProjectPath>>, sourceFiles |-> <<>>]))
    /\ enhanced.sourceFiles # readsInOrder([pc |-> "scanning", pending |-> <<ProjectPath>>, sourceFiles |-> <<>>])

\* the files with an extension of exts that lie outside the directory d and outside
\* node_modules
filesOutside(d, exts) ==
    {dir \o "/" \o project.tree[dir][j].name : <<dir, j>> \in
        {x \in (DOMAIN project.tree) \X (1..5) :
            /\ x[2] <= Len(project.tree[x[1]]) /\ ~project.tree[x[1]][x[2]].isDirectory
            /\ \E ext \in exts : endsWith(project.tree[x[1]][x[2]].name, ext)
            /\ ~includes(x[1], "node_modules") /\ x[1] # d /\ ~startsWith(x[1], d \o "/")}}

\* C22: an unreadable directory costs only its subtree: the legacy DependencyAnalyzer
\* and AdvancedDependencyAnalyzer return every supported file outside it
C22_OnlySubtreeLost ==
    \A d \in project.unreadable \cap DOMAIN project.tree :
        /\ advanced.pc = "returned" => filesOutside(d, {".js", ".jsx", ".ts", ".tsx", ".vue", ".svelte", ".css", ".scss", ".sass"}) \subseteq Range(advanced.sourceFiles)
        /\ legacy.pc = "returned" => filesOutside(d, {".js", ".jsx", ".ts", ".tsx", ".mjs", ".cjs"}) \subseteq Range(legacy.sourceFiles)

\* /p/a cannot be read and is listed before b and m.js: the legacy scan has lost the
\* files of b and m.js, which AdvancedDependencyAnalyzer returns
C22_Witness ==
    /\ project.unreadable = {"/p/a"} /\ project.tree["/p"][1].name = "a"
    /\ legacy.pc = "returned" /\ advanced.pc = "returned"
    /\ {"/p/b/b1.js", "/p/m.js"} \subseteq Range(advanced.sourceFiles)
    /\ {"/p/b/b1.js", "/p/m.js"} \cap Range(legacy.sourceFiles) = {}

\* the paths whose read or parse failed during the analysis that found sourceFiles
degraded(sourceFiles) == {x \in project.unreadable \cup project.unparseable : x \in DOMAIN project.tree \/ x \in Range(sourceFiles)}

\* C23: every directory or file that could not be read, and every file whose parse
\* fell back to the pattern scan, has an entry in the warnings returned with the
\* report (AdvancedDependencyAnalyzer and the legacy DependencyAnalyzer)
C23_DegradationWarned ==
    /\ advanced.pc = "returned" => \A x \in degraded(advanced.sourceFiles) : \E k \in 1..Len(advanced.warnings) : includes(advanced.warnings[k], x)
    /\ legacy.pc = "returned" => \A x \in degraded(legacy.sourceFiles) : \E k \in 1..Len(legacy.warnings) : includes(legacy.warnings[k], x)

\* m.js was scanned and did not parse, the analysis went on and the warnings are empty
C23_Witness ==
    /\ advanced.pc = "returned" /\ legacy.pc = "returned"
    /\ "/p/m.js" \in project.unparseable \cap Range(advanced.sourceFiles) \cap Range(legacy.sourceFiles)
    /\ mapHas(advanced.importMap, "lodash")
    /\ advanced.warnings = <<>> /\ legacy.warnings = <<>>


(***************************************************************************)
(* Specification SpecScope: AdvancedDependencyAnalyzer.analyze() under the  *)
(* scope and includeDev options, on projects that declare lodash under      *)
(* dependencies and axios under devDependencies                             *)
(***************************************************************************)
InitScope ==
    /\ project \in
         {[sourceFiles |-> SourceFiles, fileImports |-> fi, fsFiles |-> Range(SourceFiles),
           packageJson |-> manifestOf(<<[name |-> "lodash", version |-> "^4.17.21"]>>, <<[name |-> "axios", version |-> "^1.6.0"]>>),
           nodeModules |-> nm, options |-> [DefaultOptions EXCEPT !.scope = scope, !.includeDev = includeDev],
           tsconfig |-> NoTsConfig, aliasConfig |-> <<>>] :
             fi \in ImportAssignments(SourceFiles, {"lodash", "axios"}, MaxImports),
             nm \in {<<>>, <<nmEntry("axios", "pkg", "1.6.0", <<>>)>>},
             scope \in {"all", "dependencies", "devDependencies"}, includeDev \in BOOLEAN}
    /\ importAnalyzer = NewImportAnalyzer
    /\ advanced = NewAdvanced
    /\ peerAnalyzer = NewPeerAnalyzer
    /\ legacy = Idle
    /\ enhanced = Idle
    /\ resolver = Idle
    /\ pc = "initialize"

SpecScope == InitScope /\ [][Next]_vars

(***************************************************************************)
(* Scope properties, checked under SpecScope                                *)
(***************************************************************************)
\* the names package.json declares under devDependencies and in no other bucket
devOnlyNames ==
    {project.packageJson.devDependencies[i].name : i \in 1..Len(project.packageJson.devDependencies)}
        \ {project.packageJson.dependencies[i].name : i \in 1..Len(project.packageJson.dependencies)}

\* C25: a package declared only under devDependencies and imported by source is in
\* neither the missing nor the phantom list, whatever scope and includeDev are
C25_DevOnlyNotFolded ==
    classifyDone => \A n \in devOnlyNames : importedSomewhere(n) => (n \notin missingNames /\ n \notin phantomNames)

\* C25 witness: with scope = 'dependencies' the imported dev-only axios, which is
\* installed, has been listed phantom
C25_Witness ==
    /\ classifyDone /\ pc = "returned" /\ project.options.scope = "dependencies"
    /\ "axios" \in devOnlyNames /\ importedSomewhere("axios") /\ nodeModulesHas("axios")
    /\ "axios" \in phantomNames


(***************************************************************************)
(* Specification SpecHealth: calculateHealthScore on a result whose summary *)
(* holds the issue counts 0..MaxCount and two counts beyond every cap       *)
(***************************************************************************)
MaxCount == 2

InitHealth ==
    /\ project \in {p \in ClassifyProjects : p.fileImports = [x \in Range(SourceFiles) |-> <<>>] /\ p.nodeModules = <<>> /\ p.packageJson = manifestOf(<<>>, <<>>)}
    /\ importAnalyzer = NewImportAnalyzer
    /\ advanced \in {[NewAdvanced EXCEPT !.result.summary.unused = c[1], !.result.summary.missing = c[2], !.result.summary.peerConflicts = c[3],
                                         !.result.summary.vulnerable = c[4], !.result.summary.circular = c[5]] :
                        c \in [1..5 -> 0..MaxCount \cup {9, 16}]}
    /\ peerAnalyzer = NewPeerAnalyzer
    /\ legacy = Idle
    /\ enhanced = Idle
    /\ resolver = Idle
    /\ pc = "calculateHealthScore"

SpecHealth == InitHealth /\ [][CalculateHealthScore]_vars

(***************************************************************************)
(* Health score properties, checked under SpecHealth                        *)
(***************************************************************************)
\* C26: the score calculateHealthScore assigns is an integer in 0..100, it is 100 when
\* every count is 0, and it does not increase when one of the counts unused, missing,
\* peerConflicts, vulnerable, circular increases
C26_ScoreBoundedMonotone ==
    pc = "returned" =>
        /\ advanced.result.health.score \in 0..100
        /\ (\A k \in {"unused", "missing", "peerConflicts", "vulnerable", "circular"} : advanced.result.summary[k] = 0) => advanced.result.health.score = 100
        /\ \A k \in {"unused", "missing", "peerConflicts", "vulnerable", "circular"} : \A more \in 1..3 :
              healthScore([advanced.result.summary EXCEPT ![k] = @ + more]) <= advanced.result.health.score

\* C26 witness: a score strictly between the bounds has been assigned for counts of
\* which one is beyond its cap
C26_Witness ==
    /\ pc = "returned" /\ advanced.result.health.score \in 1..99
    /\ advanced.result.summary.unused = 16 /\ advanced.result.summary.missing = 2
    /\ advanced.result.health.score = 64


(***************************************************************************)
(* Specification SpecDeps: EnhancedDependencyAnalyzer.getAllDependencies.   *)
(* The callbacks that forEach starts are async functions: each runs up to   *)
(* its await (inside the argument of dependencies.set) and continues as a   *)
(* microtask. enhanced.microtasks is the job queue in the order the jobs    *)
(* were queued: the continuations of the callbacks, then the continuation   *)
(* of analyze() at its await of getAllDependencies.                         *)
(***************************************************************************)
\* the callbacks Object.entries(deps).forEach starts for one bucket
addDependencies(deps, type) == [i \in 1..Len(deps) |-> [kind |-> "set", name |-> deps[i].name, version |-> deps[i].version, type |-> type]]

InitDeps ==
    /\ project \in
         {[sourceFiles |-> <<>>, fileImports |-> <<>>, fsFiles |-> {},
           packageJson |-> [present |-> TRUE, dependencies |-> deps, devDependencies |-> devDeps, peerDependencies |-> peerDeps],
           nodeModules |-> <<>>, options |-> [DefaultOptions EXCEPT !.scope = scope, !.includeDev = includeDev],
           tsconfig |-> NoTsConfig, aliasConfig |-> <<>>] :
             deps \in {<<>>, <<[name |-> "lodash", version |-> "^4.17.21"]>>, <<[name |-> "lodash", version |-> "^4.17.21"], [name |-> "axios", version |-> "^1.6.0"]>>},
             devDeps \in {<<>>, <<[name |-> "jest", version |-> "^29.0.0"]>>, <<[name |-> "lodash", version |-> "^4.0.0"], [name |-> "jest", version |-> "^29.0.0"]>>},
             peerDeps \in {<<>>, <<[name |-> "react", version |-> "^16.8.0"]>>},
             scope \in {"all", "dependencies", "devDependencies", "peerDependencies"}, includeDev \in BOOLEAN}
    /\ importAnalyzer = NewImportAnalyzer
    /\ advanced = Idle
    /\ peerAnalyzer = Idle
    /\ legacy = Idle
    /\ enhanced = [pc |-> "getAllDependencies", dependencies |-> <<>>, summaryTotal |-> 0, resultDependencies |-> <<>>, microtasks |-> <<>>]
    /\ resolver = Idle
    /\ pc = "initialize"

\* getAllDependencies up to its return: every callback stops at await
\* this.getDependencySize(name) before dependencies.set is called, so the Map is
\* still as new Map() left it when summary.total and result.dependencies are assigned
EnhancedGetAllDependencies ==
    /\ enhanced.pc = "getAllDependencies"
    /\ enhanced' = [enhanced EXCEPT !.pc = "awaiting",
                                    !.summaryTotal = Len(enhanced.dependencies),
                                    !.resultDependencies = enhanced.dependencies,
                                    !.microtasks = (IF inScope("dependencies") THEN addDependencies(project.packageJson.dependencies, "dependencies") ELSE <<>>)
                                                   \o (IF inScope("devDependencies") THEN addDependencies(project.packageJson.devDependencies, "devDependencies") ELSE <<>>)
                                                   \o (IF inScope("peerDependencies") THEN addDependencies(project.packageJson.peerDependencies, "peerDependencies") ELSE <<>>)
                                                   \o <<[kind |-> "resume"]>>]
    /\ UNCHANGED <<project, importAnalyzer, advanced, peerAnalyzer, legacy, resolver, pc>>

\* the first job of the queue runs: a callback calls dependencies.set(name, ...) (a
\* name already in the Map keeps its place and takes the new value), or analyze()
\* goes on to categorizeDependencies
EnhancedMicrotask ==
    /\ enhanced.pc = "awaiting"
    /\ enhanced' = IF enhanced.microtasks[1].kind = "resume"
                   THEN [enhanced EXCEPT !.pc = "categorizeDependencies", !.microtasks = Tail(@)]
                   ELSE [enhanced EXCEPT !.microtasks = Tail(@),
                                         !.dependencies = IF depsHas(@, enhanced.microtasks[1].name)
                                                          THEN [i \in 1..Len(@) |-> IF @[i].name = enhanced.microtasks[1].name
                                                                                    THEN [name |-> @[i].name, version |-> enhanced.microtasks[1].version, type |-> enhanced.microtasks[1].type]
                                                                                    ELSE @[i]]
                                                          ELSE Append(@, [name |-> enhanced.microtasks[1].name, version |-> enhanced.microtasks[1].version, type |-> enhanced.microtasks[1].type])]
    /\ UNCHANGED <<project, importAnalyzer, advanced, peerAnalyzer, legacy, resolver, pc>>

SpecDeps == InitDeps /\ [][EnhancedGetAllDependencies \/ EnhancedMicrotask]_vars

(***************************************************************************)
(* Properties of getAllDependencies, checked under SpecDeps                 *)
(***************************************************************************)
\* the names package.json declares in the buckets within scope
namesInScope ==
    UNION {{project.packageJson[b][i].name : i \in 1..Len(project.packageJson[b])} : b \in {x \in {"dependencies", "devDependencies", "peerDependencies"} : inScope(x)}}

\* C27: when getAllDependencies has returned to analyze(), summary.total is the number
\* of distinct declared names in scope and result.dependencies has one entry per name
C27_AllInsertedBeforeSummary ==
    enhanced.pc = "categorizeDependencies" =>
        /\ enhanced.summaryTotal = Cardinality(namesInScope)
        /\ {enhanced.resultDependencies[i].name : i \in 1..Len(enhanced.resultDependencies)} = namesInScope
        /\ Len(enhanced.resultDependencies) = Cardinality(namesInScope)

\* C27 witness: analyze() has resumed with every declared name in the Map, one entry
\* each, while summary.total is 0 and result.dependencies is empty
C27_Witness ==
    /\ enhanced.pc = "categorizeDependencies" /\ Cardinality(namesInScope) >= 2
    /\ {enhanced.dependencies[i].name : i \in 1..Len(enhanced.dependencies)} = namesInScope
    /\ Len(enhanced.dependencies) = Cardinality(namesInScope)
    /\ enhanced.summaryTotal = 0 /\ enhanced.resultDependencies = <<>>


(***************************************************************************)
(* DependencyAnalyzer.detectCircularDependencies step by step: one action   *)
(* per iteration of its loops, per call of detectCircular and per return    *)
(***************************************************************************)
\* the projects whose relative imports resolveImportPath of DependencyAnalyzer
\* resolves: '../b' to /p/b/index.js
IndexProjects == {p \in CycleProjects : \A i \in 1..Len(p.sourceFiles) : endsWith(p.sourceFiles[i], "/index.js")}

\* the frame of the running detectCircular call: its file and the position of its loop
topFrame(s) == s.frames[Len(s.frames)]

\* detectCircular(file, ...) is called: the three statements before its loop
\* (entered counts the calls per file)
detectCircularEnter(s, file) ==
    [s EXCEPT !.visited = @ \cup {file}, !.recursionStack = @ \cup {file}, !.currentPath = Append(@, file),
              !.frames = Append(@, [file |-> file, dep |-> 1]), !.entered = [@ EXCEPT ![file] = @ + 1]]

\* the loop of the running call moves to its next dependency
detectCircularAdvance(s) == [s EXCEPT !.frames = [@ EXCEPT ![Len(@)] = [@ EXCEPT !.dep = @ + 1]]]

\* the loop body with the test of the visited set left out
detectCircularLoop_unvisited(s, depFile) ==
    IF depFile = Null THEN detectCircularAdvance(s)
    ELSE IF depFile \in s.recursionStack
    THEN [detectCircularAdvance(s) EXCEPT !.circularPaths = Append(@, cycleEntry(SubSeq(s.currentPath, indexOf(s.currentPath, depFile), Len(s.currentPath)) \o <<depFile>>))]
    ELSE detectCircularEnter(detectCircularAdvance(s), depFile)

\* one iteration of detectCircular's loop, for the dependency resolved to depFile
detectCircularLoop(s, depFile) ==
    IF depFile = Null THEN detectCircularAdvance(s)
    ELSE IF depFile \in s.recursionStack
    THEN [detectCircularAdvance(s) EXCEPT !.circularPaths = Append(@, cycleEntry(SubSeq(s.currentPath, indexOf(s.currentPath, depFile), Len(s.currentPath)) \o <<depFile>>))]
    ELSE IF depFile \notin s.visited THEN detectCircularEnter(detectCircularAdvance(s), depFile)
    ELSE detectCircularAdvance(s)

\* what this.resolveImportPath(file, dep.module) returns for each dependency of each
\* file of the graph
resolvedDeps(graph) ==
    [f \in {graph[i].file : i \in 1..Len(graph)} |->
        [k \in 1..Len(graphGet(graph, f)) |-> legacyResolveImportPath(graph, f, graphGet(graph, f)[k].module)]]

\* the state when detectCircularDependencies starts: analyzeSourceFiles has filled
\* dependencyGraph, visited and recursionStack are new Sets. resolveImportPath reads
\* the keys of dependencyGraph and nothing else, and the search never changes them:
\* depFiles holds its results for the whole search
InitSearch ==
    /\ project \in IndexProjects
    /\ importAnalyzer = NewImportAnalyzer
    /\ advanced = Idle
    /\ peerAnalyzer = Idle
    /\ legacy = [pc |-> "detectCircularDependencies", dependencyGraph |-> legacyAnalyzeSourceFiles(project.sourceFiles),
                 depFiles |-> resolvedDeps(legacyAnalyzeSourceFiles(project.sourceFiles)),
                 circularPaths |-> <<>>, circular |-> <<>>, summaryCircular |-> 0,
                 root |-> 1, visited |-> {}, recursionStack |-> {}, currentPath |-> <<>>, frames |-> <<>>,
                 entered |-> [f \in Range(project.sourceFiles) |-> 0]]
    /\ enhanced = Idle
    /\ resolver = Idle
    /\ pc = "initialize"

\* one iteration of for (const [file] of this.dependencyGraph): a file not yet
\* visited starts a search with a new path
DetectCircularRoot ==
    /\ legacy.pc = "detectCircularDependencies" /\ legacy.frames = <<>> /\ legacy.root <= Len(legacy.dependencyGraph)
    /\ legacy' = IF legacy.dependencyGraph[legacy.root].file \in legacy.visited
                 THEN [legacy EXCEPT !.root = @ + 1]
                 ELSE detectCircularEnter([legacy EXCEPT !.root = @ + 1, !.currentPath = <<>>], legacy.dependencyGraph[legacy.root].file)
    /\ UNCHANGED <<project, importAnalyzer, advanced, peerAnalyzer, enhanced, resolver, pc>>

\* one iteration of for (const dep of deps) in the running detectCircular call
DetectCircularLoop ==
    /\ legacy.pc = "detectCircularDependencies" /\ legacy.frames # <<>>
    /\ topFrame(legacy).dep <= Len(graphGet(legacy.dependencyGraph, topFrame(legacy).file))
    /\ legacy' = detectCircularLoop(legacy, legacy.depFiles[topFrame(legacy).file][topFrame(legacy).dep])
    /\ UNCHANGED <<project, importAnalyzer, advanced, peerAnalyzer, enhanced, resolver, pc>>

\* the running detectCircular call is through its loop: recursionStack.delete(file),
\* currentPath.pop() and the return to its caller
DetectCircularReturn ==
    /\ legacy.pc = "detectCircularDependencies" /\ legacy.frames # <<>>
    /\ topFrame(legacy).dep > Len(graphGet(legacy.dependencyGraph, topFrame(legacy).file))
    /\ legacy' = [legacy EXCEPT !.recursionStack = @ \ {topFrame(legacy).file},
                                !.currentPath = SubSeq(@, 1, Len(@) - 1),
                                !.frames = SubSeq(@, 1, Len(@) - 1)]
    /\ UNCHANGED <<project, importAnalyzer, advanced, peerAnalyzer, enhanced, resolver, pc>>

\* the loop over the files is through: result.data.circular and summary.circular
DetectCircularDependenciesReturn ==
    /\ legacy.pc = "detectCircularDependencies" /\ legacy.frames = <<>> /\ legacy.root > Len(legacy.dependencyGraph)
    /\ legacy' = [legacy EXCEPT !.pc = "returned", !.circular = legacy.circularPaths, !.summaryCircular = Len(legacy.circularPaths)]
    /\ UNCHANGED <<project, importAnalyzer, advanced, peerAnalyzer, enhanced, resolver, pc>>

NextSearch ==
    \/ DetectCircularRoot
    \/ DetectCircularLoop
    \/ DetectCircularReturn
    \/ DetectCircularDependenciesReturn

\* detectCircularDependencies is synchronous code: a step that can be taken is taken
SpecSearch == InitSearch /\ [][NextSearch]_vars /\ WF_vars(NextSearch)

(***************************************************************************)
(* Properties of the legacy search, checked under SpecSearch                *)
(***************************************************************************)
\* the recursion stack holds the files of the current path, each once, all visited
stackIsPath(s) ==
    /\ s.recursionStack = Range(s.currentPath)
    /\ Len(s.currentPath) = Cardinality(s.recursionStack)
    /\ s.currentPath = [k \in 1..Len(s.frames) |-> s.frames[k].file]
    /\ s.recursionStack \subseteq s.visited

\* the dependencies the loop reads are what resolveImportPath returns in this state
depFilesCurrent == legacy.depFiles = resolvedDeps(legacy.dependencyGraph)

searchSteady ==
    /\ \A f \in DOMAIN legacy.entered : legacy.entered[f] <= 1
    /\ stackIsPath(legacy)
    /\ legacy.pc = "returned" => (legacy.recursionStack = {} /\ legacy.currentPath = <<>>)

\* C29: the legacy search ends on every import graph; detectCircular is entered at
\* most once per file over all roots, at every step the recursion stack is the set of
\* files of the current path and lies within visited, and the stack and the path are
\* empty when the search has ended
C29_SearchTerminates == [](searchSteady) /\ <>(legacy.pc = "returned")

\* C29 witness: the search has ended on a graph with a cycle, every file entered once
C29_Witness ==
    /\ legacy.pc = "returned" /\ legacy.circularPaths # <<>>
    /\ ~acyclic(legacyEdgesOf(legacy.dependencyGraph))
    /\ \A f \in DOMAIN legacy.entered : legacy.entered[f] = 1
    /\ legacy.visited = Range(project.sourceFiles)


(***************************************************************************)
(* analyze() of AdvancedDependencyAnalyzer on projects that declare a peer  *)
(* of an installed package                                                 *)
(***************************************************************************)
\* package.json declares pkg-a and possibly react; the source files import pkg-a and
\* possibly react; node_modules holds pkg-a, which requires react as a peer, and
\* possibly react
DeclaredPeerProjects ==
    {[sourceFiles |-> SourceFiles, fileImports |-> [x \in Range(SourceFiles) |-> importsOf(imports)], fsFiles |-> Range(SourceFiles),
      packageJson |-> manifestOf(<<[name |-> "pkg-a", version |-> "^1.0.0"]>> \o declared, <<>>),
      nodeModules |-> a \o r, options |-> DefaultOptions, tsconfig |-> NoTsConfig, aliasConfig |-> <<>>] :
        imports \in {<<"pkg-a">>, <<"pkg-a", "react">>},
        declared \in {<<>>, <<[name |-> "react", version |-> "^16.8.0"]>>},
        a \in {<<requiring("pkg-a", ra, opt)>> : ra \in {"^16.8.0", "^17.0.0"}, opt \in {{}, {"react"}}},
        r \in {<<>>, <<nmEntry("react", "pkg", "16.8.0", <<>>)>>, <<nmEntry("react", "pkg", "17.0.0", <<>>)>>}}

InitDeclaredPeer ==
    /\ project \in DeclaredPeerProjects
    /\ importAnalyzer = NewImportAnalyzer
    /\ advanced = NewAdvanced
    /\ peerAnalyzer = NewPeerAnalyzer
    /\ legacy = Idle
    /\ enhanced = Idle
    /\ resolver = Idle
    /\ pc = "initialize"

SpecDeclaredPeer == InitDeclaredPeer /\ [][Next]_vars

(***************************************************************************)
(* Properties of the unused and missing lists, checked under               *)
(* SpecDeclaredPeer                                                        *)
(***************************************************************************)
\* the names of the missing list, entries of imports and of peers alike
missingListNames == {advanced.result.missing[i].name : i \in 1..Len(advanced.result.missing)}

\* C30: after a successful analyze() with peer checking no package name is both in
\* the unused list and in the missing list
C30_UnusedNotMissing ==
    (pc = "returned" /\ advanced.result.success /\ project.options.checkPeerDependencies) => unusedNames \cap missingListNames = {}

\* C30 witness: react is declared, never imported and not installed, pkg-a requires
\* it as a non-optional peer; analyze() succeeded with react both unused and missing
C30_Witness ==
    /\ pc = "returned" /\ advanced.result.success /\ project.options.checkPeerDependencies
    /\ "react" \in declaredNames /\ ~importedSomewhere("react") /\ ~peerInstalled("react")
    /\ \E e \in Range(project.nodeModules) : e.kind = "pkg" /\ "react" \notin e.optional /\ \E k \in 1..Len(e.peerDependencies) : e.peerDependencies[k].name = "react"
    /\ "react" \in unusedNames /\ "react" \in missingListNames

====
